---- MODULE Spec2Model ----
(***************************************************************************)
(* Verification model of the quiz question generator                      *)
(* (src/generate_quiz_questions.py, src/validate_questions.py).           *)
(*                                                                         *)
(* Python strings are modelled as sequences of one-character strings, so  *)
(* that lower(), strip(), split(), "in", startswith(), count() and        *)
(* float() are computed character by character as the interpreter does.   *)
(***************************************************************************)
EXTENDS Integers, Sequences, FiniteSets, TLC

VARIABLES
    v_pc,             \* position of one call of is_valid_answer_format
    v_question,       \* its question_text argument
    v_answer,         \* its answer argument
    v_result,         \* its return value
    d_pc,             \* position of one call of deduplicate_questions
    d_questions,      \* its questions argument
    d_i,              \* number of questions its loop has processed
    unique_questions, \* its local unique_questions
    seen_questions,   \* its local seen_questions
    seen_answers,     \* its local seen_answers: answer -> set of signatures
    d_kept,           \* whether the loop kept the question it processed last
    p_pc,             \* position of one run of generate_all_questions
    p_df,             \* self.df, the prepared records
    p_limits,         \* the four generation limits of the generator object
    all_questions,    \* local all_questions of generate_all_questions
    c_questions,      \* local questions of the LLM-backed generator that runs
    c_unit,           \* number of comments its loop has processed
    llm_log,          \* the LLM calls made so far, with what each one gave
    valid_questions,  \* local valid_questions
    interesting_questions, \* local interesting_questions
    returned_questions,    \* the list generate_all_questions returns
    p_error,          \* the exception that ended the run, "" for none
    f_pc,             \* position of one call of is_interesting_question
    f_question,       \* its question argument
    f_result,         \* its return value
    call_pc,          \* position of a caller that uses single methods directly
    call_args,        \* what the caller passes
    call_results      \* what the methods have returned to it so far

validatorVars == <<v_pc, v_question, v_answer, v_result>>

dedupVars ==
    <<d_pc, d_questions, d_i, unique_questions, seen_questions, seen_answers, d_kept>>

pipelineVars ==
    <<p_pc, p_df, p_limits, all_questions, c_questions, c_unit, llm_log, valid_questions,
      interesting_questions, returned_questions, p_error>>

filterVars == <<f_pc, f_question, f_result>>

callVars == <<call_pc, call_args, call_results>>

otherVars == <<filterVars, callVars>>

vars == <<validatorVars, dedupVars, pipelineVars, otherVars>>

---------------------------------------------------------------------------
(* Characters                                                              *)

UpperLetters == <<"A","B","C","D","E","F","G","H","I","J","K","L","M","N","O","P","Q","R","S","T","U","V","W","X","Y","Z">>

LowerLetters == <<"a","b","c","d","e","f","g","h","i","j","k","l","m","n","o","p","q","r","s","t","u","v","w","x","y","z">>

Digits == {"0","1","2","3","4","5","6","7","8","9"}

Whitespace == {" ", "\t", "\n"}

Range(s) == {s[i] : i \in 1..Len(s)}

UpperSet == Range(UpperLetters)

AlphaSet == Range(UpperLetters) \cup Range(LowerLetters)

\* the lower-case letter of each upper-case letter
LowerOf ==
    [c \in UpperSet |-> LowerLetters[CHOOSE i \in 1..Len(UpperLetters) : UpperLetters[i] = c]]

\* c.isupper()
IsUpper(c) == c \in UpperSet

\* c.isalpha()
IsAlpha(c) == c \in AlphaSet

\* c.lower() for one character
LowerChar(c) == IF IsUpper(c) THEN LowerOf[c] ELSE c

---------------------------------------------------------------------------
(* String operations of the interpreter                                    *)

\* s.lower()
Lower(s) == [i \in 1..Len(s) |-> LowerChar(s[i])]

\* s.strip(): leading and trailing whitespace removed
Strip(s) ==
    IF \A i \in 1..Len(s) : s[i] \in Whitespace THEN <<>>
    ELSE LET lo == CHOOSE i \in 1..Len(s) :
                      s[i] \notin Whitespace /\ \A j \in 1..(i - 1) : s[j] \in Whitespace
             hi == CHOOSE i \in 1..Len(s) :
                      s[i] \notin Whitespace /\ \A j \in (i + 1)..Len(s) : s[j] \in Whitespace
         IN  SubSeq(s, lo, hi)

\* s.startswith(p)
StartsWith(s, p) == Len(p) <= Len(s) /\ SubSeq(s, 1, Len(p)) = p

\* p in s
Contains(s, p) ==
    \E k \in 0..(Len(s) - Len(p)) : SubSeq(s, k + 1, k + Len(p)) = p

\* s.count(c) for a single character c
Count(s, c) == Cardinality({i \in 1..Len(s) : s[i] = c})

\* s.replace(c, '') for a single character c
RemoveChar(s, c) == SelectSeq(s, LAMBDA x : x # c)

\* s.split(): the maximal runs of non-whitespace characters, in order
RECURSIVE Split(_)
Split(s) ==
    LET t == Strip(s)
    IN  IF t = <<>> THEN <<>>
        ELSE LET ws == {i \in 1..Len(t) : t[i] \in Whitespace}
             IN  IF ws = {} THEN <<t>>
                 ELSE LET e == CHOOSE i \in ws : \A j \in ws : i <= j
                      IN  <<SubSeq(t, 1, e - 1)>> \o Split(SubSeq(t, e, Len(t)))

\* sep.join(words)
RECURSIVE Join(_, _)
Join(words, sep) ==
    IF words = <<>> THEN <<>>
    ELSE IF Len(words) = 1 THEN words[1]
    ELSE words[1] \o sep \o Join(Tail(words), sep)

\* any(c.isupper() for c in s)
HasUpper(s) == \E i \in 1..Len(s) : IsUpper(s[i])

\* any(c.isalpha() for c in s)
HasAlpha(s) == \E i \in 1..Len(s) : IsAlpha(s[i])

---------------------------------------------------------------------------
(* float(s): the strings the interpreter's float() accepts                 *)

\* digits, single underscores allowed between digits
IsDigitRun(s) ==
    /\ Len(s) >= 1
    /\ s[1] \in Digits
    /\ s[Len(s)] \in Digits
    /\ \A i \in 1..Len(s) : s[i] \in Digits \cup {"_"}
    /\ \A i \in 1..(Len(s) - 1) : ~(s[i] = "_" /\ s[i + 1] = "_")

\* digits [. [digits]] or . digits
IsMantissa(m) ==
    \E j \in 0..Len(m) :
        LET a == SubSeq(m, 1, j)
            b == SubSeq(m, j + 1, Len(m))
        IN  \/ b = <<>> /\ IsDigitRun(a)
            \/ /\ b # <<>>
               /\ b[1] = "."
               /\ (a = <<>> \/ IsDigitRun(a))
               /\ (Tail(b) = <<>> \/ IsDigitRun(Tail(b)))
               /\ (a # <<>> \/ Tail(b) # <<>>)

\* e or E, an optional sign, digits
IsExponent(x) ==
    /\ Len(x) >= 2
    /\ x[1] \in {"e", "E"}
    /\ LET r == Tail(x)
           d == IF r[1] \in {"+", "-"} THEN Tail(r) ELSE r
       IN  IsDigitRun(d)

IsSpecialFloat(u) ==
    Lower(u) \in { <<"i","n","f">>, <<"i","n","f","i","n","i","t","y">>, <<"n","a","n">> }

\* float(s) returns (TRUE) or raises ValueError (FALSE)
ParsesAsFloat(s) ==
    LET t == Strip(s)
        u == IF t # <<>> /\ t[1] \in {"+", "-"} THEN Tail(t) ELSE t
    IN  \/ IsSpecialFloat(u)
        \/ \E k \in 1..Len(u) :
              /\ IsMantissa(SubSeq(u, 1, k))
              /\ (k = Len(u) \/ IsExponent(SubSeq(u, k + 1, Len(u))))

---------------------------------------------------------------------------
(* Literals of the source                                                  *)

S_who_sp == <<"w","h","o"," ">>

S_sp_who_sp == <<" ","w","h","o"," ">>

S_how_many == <<"h","o","w"," ","m","a","n","y">>

S_what_amount == <<"w","h","a","t"," ","a","m","o","u","n","t">>

S_how_much == <<"h","o","w"," ","m","u","c","h">>

WhoMaxLen == 50

WhoMaxWords == 6

OtherMaxLen == 100

---------------------------------------------------------------------------
(* is_valid_answer_format                                                  *)

\* the "who" branch is taken
IsWhoShaped(question_text) ==
    LET question_lower == Lower(question_text)
    IN  StartsWith(question_lower, S_who_sp) \/ Contains(question_lower, S_sp_who_sp)

\* the "how many" branch is taken (tested only when the "who" branch is not)
IsQuantityText(question_text) ==
    LET question_lower == Lower(question_text)
    IN  \/ Contains(question_lower, S_how_many)
        \/ Contains(question_lower, S_what_amount)
        \/ StartsWith(question_lower, S_how_much)

\* the name rule of the "who" branch
WhoRule(answer_str) ==
    IF HasUpper(answer_str) /\ Len(answer_str) < WhoMaxLen
    THEN IF Count(answer_str, ".") > 0 \/ Len(Split(answer_str)) > WhoMaxWords
         THEN FALSE
         ELSE TRUE
    ELSE FALSE

\* QuantityRule with the commas left in place before float()
QuantityRule_KeepsCommas(answer_str) ==
    IF ParsesAsFloat(answer_str)
    THEN IF ~HasAlpha(answer_str) THEN TRUE ELSE FALSE
    ELSE FALSE

\* the number rule of the "how many" branch: float() of the answer without
\* commas must not raise, and the answer must hold no letter
QuantityRule(answer_str) ==
    IF ParsesAsFloat(RemoveChar(answer_str, ","))
    THEN IF ~HasAlpha(answer_str) THEN TRUE ELSE FALSE
    ELSE FALSE

\* OtherRule with the length bound off by one
OtherRule_OffByOne(answer_str) ==
    IF Len(answer_str) >= OtherMaxLen \/ Count(answer_str, ".") > 1
    THEN FALSE
    ELSE TRUE

\* the rule for every other question
OtherRule(answer_str) ==
    IF Len(answer_str) > OtherMaxLen \/ Count(answer_str, ".") > 1
    THEN FALSE
    ELSE TRUE

\* is_valid_answer_format with the "how many" test placed before the "who"
\* test
is_valid_answer_format_QuantityFirst(question_text, answer) ==
    IF answer = <<>> \/ Strip(answer) = <<>>
    THEN FALSE
    ELSE LET answer_str == Strip(answer)
         IN  IF IsQuantityText(question_text) THEN QuantityRule(answer_str)
             ELSE IF IsWhoShaped(question_text) THEN WhoRule(answer_str)
             ELSE OtherRule(answer_str)

is_valid_answer_format(question_text, answer) ==
    IF answer = <<>> \/ Strip(answer) = <<>>
    THEN FALSE
    ELSE LET answer_str == Strip(answer)
         IN  IF IsWhoShaped(question_text) THEN WhoRule(answer_str)
             ELSE IF IsQuantityText(question_text) THEN QuantityRule(answer_str)
             ELSE OtherRule(answer_str)

---------------------------------------------------------------------------
(* deduplicate_questions                                                   *)

SameAnswerLimit == 3

SignatureWords == 5

\* words[:n]
Take(words, n) == SubSeq(words, 1, IF Len(words) < n THEN Len(words) ELSE n)

\* ' '.join(question_text.lower().split()[:5])
Signature(question_text) ==
    Join(Take(Split(Lower(question_text)), SignatureWords), <<" ">>)

\* existing_sig in question_signature or question_signature in existing_sig
SignaturesCollide(existing_sig, question_signature) ==
    Contains(question_signature, existing_sig) \/ Contains(existing_sig, question_signature)

\* the locals of the loop before its first iteration
DedupStart ==
    [unique_questions |-> <<>>,
     seen_questions |-> {},
     seen_answers |-> [a \in {} |-> {}]]

\* seen_answers[answer].add(question_signature) on a defaultdict(set)
AddSignature(sa, answer, sig) ==
    [a \in DOMAIN sa \cup {answer} |->
        IF a = answer
        THEN (IF a \in DOMAIN sa THEN sa[a] ELSE {}) \cup {sig}
        ELSE sa[a]]

\* the loop body reaches its last three lines for q (no "continue" is taken)
DedupKeeps_NoExactCheck(st, q) ==
    LET question_text == Strip(q.question)
        answer == Strip(q.answer)
        question_signature == Signature(question_text)
    IN  IF answer \in DOMAIN st.seen_answers
              /\ Cardinality(st.seen_answers[answer]) >= SameAnswerLimit
        THEN ~(\E existing_sig \in st.seen_answers[answer] :
                 SignaturesCollide(existing_sig, question_signature))
        ELSE TRUE

DedupKeeps(st, q) ==
    LET question_text == Strip(q.question)
        answer == Strip(q.answer)
        question_signature == Signature(question_text)
    IN  IF question_text \in st.seen_questions
        THEN FALSE
        ELSE IF answer \in DOMAIN st.seen_answers
                  /\ Cardinality(st.seen_answers[answer]) >= SameAnswerLimit
             THEN ~(\E existing_sig \in st.seen_answers[answer] :
                      SignaturesCollide(existing_sig, question_signature))
             ELSE TRUE

\* one iteration of the loop in which a question whose text was seen before
\* takes the place of the question kept for that text
DedupStep_LastSeenWins(st, q) ==
    IF Strip(q.question) \in st.seen_questions
    THEN [st EXCEPT !.unique_questions =
             Append(SelectSeq(st.unique_questions,
                              LAMBDA u : Strip(u.question) # Strip(q.question)), q)]
    ELSE IF DedupKeeps(st, q)
    THEN [unique_questions |-> Append(st.unique_questions, q),
          seen_questions |-> st.seen_questions \cup {Strip(q.question)},
          seen_answers |-> AddSignature(st.seen_answers, Strip(q.answer),
                                        Signature(Strip(q.question)))]
    ELSE st

\* one iteration of the loop
DedupStep(st, q) ==
    IF DedupKeeps(st, q)
    THEN [unique_questions |-> Append(st.unique_questions, q),
          seen_questions |-> st.seen_questions \cup {Strip(q.question)},
          seen_answers |-> AddSignature(st.seen_answers, Strip(q.answer),
                                        Signature(Strip(q.question)))]
    ELSE st

RECURSIVE DedupLoop(_, _)
DedupLoop(st, questions) ==
    IF questions = <<>> THEN st
    ELSE CHOOSE result \in {DedupLoop(after, Tail(questions)) :
                               after \in {DedupStep(st, questions[1])}} : TRUE

\* a deduplicate_questions that builds its list with insert(0, q)
deduplicate_questions_NewestFirst(questions) ==
    LET kept == DedupLoop(DedupStart, questions).unique_questions
    IN  [i \in 1..Len(kept) |-> kept[Len(kept) + 1 - i]]

deduplicate_questions(questions) == DedupLoop(DedupStart, questions).unique_questions

---------------------------------------------------------------------------
(* Numbers and dates as text                                               *)

DigitChars == <<"0","1","2","3","4","5","6","7","8","9">>

\* str(n) for an integer n
RECURSIVE IntToStr(_)
IntToStr(n) ==
    IF n < 0 THEN <<"-">> \o IntToStr(0 - n)
    ELSE IF n < 10 THEN <<DigitChars[n + 1]>>
    ELSE IntToStr(n \div 10) \o <<DigitChars[(n % 10) + 1]>>

\* strftime('%B') of month 1..12
MonthNames ==
    << <<"J","a","n","u","a","r","y">>,
       <<"F","e","b","r","u","a","r","y">>,
       <<"M","a","r","c","h">>,
       <<"A","p","r","i","l">>,
       <<"M","a","y">>,
       <<"J","u","n","e">>,
       <<"J","u","l","y">>,
       <<"A","u","g","u","s","t">>,
       <<"S","e","p","t","e","m","b","e","r">>,
       <<"O","c","t","o","b","e","r">>,
       <<"N","o","v","e","m","b","e","r">>,
       <<"D","e","c","e","m","b","e","r">> >>

\* strftime('%B %d, %Y')
FormatLongDate(d) ==
    MonthNames[d.month] \o <<" ">>
        \o (IF d.day < 10 THEN <<"0">> ELSE <<>>) \o IntToStr(d.day)
        \o <<",", " ">> \o IntToStr(d.year)

\* strftime('%B %Y')
FormatMonthYear(d) == MonthNames[d.month] \o <<" ">> \o IntToStr(d.year)

\* .dt.quarter
QuarterOf(month) == ((month - 1) \div 3) + 1

\* int(x) of an amount held in tenths: truncation toward zero
IntOfAmount(tenths) ==
    IF tenths >= 0 THEN tenths \div 10 ELSE 0 - ((0 - tenths) \div 10)

\* int(limit * 0.t) as the interpreter computes it in double arithmetic:
\* the floor of limit * t / 10, and one less where the double product falls
\* just below that integer (for limits up to 100: 90 * 0.7 = 62.99999999999999)
IntOfTenths(limit, t) ==
    IF t = 7 /\ limit = 90 THEN 62 ELSE (limit * t) \div 10

Min(a, b) == IF a < b THEN a ELSE b

---------------------------------------------------------------------------
(* The prepared record set (self.df after prepare_data) and its analysis   *)
(* A record is [recipient, giver, program, award_type, amount, date,       *)
(* comment_len]: award_type <<>> is a missing value, amount is in tenths,  *)
(* comment_len -1 is a missing comment.                                    *)

\* characters in code point order, for the order of group keys
CodePointOrder == <<" ">> \o DigitChars \o UpperLetters \o LowerLetters

CharRank(c) == CHOOSE i \in 1..Len(CodePointOrder) : CodePointOrder[i] = c

\* a < b for strings
RECURSIVE StrLess(_, _)
StrLess(a, b) ==
    IF a = <<>> THEN b # <<>>
    ELSE IF b = <<>> THEN FALSE
    ELSE IF a[1] = b[1] THEN StrLess(Tail(a), Tail(b))
    ELSE CharRank(a[1]) < CharRank(b[1])

\* the keys of a groupby on one column: distinct values, ascending
RECURSIVE SortedKeys(_)
SortedKeys(S) ==
    IF S = {} THEN <<>>
    ELSE LET m == CHOOSE x \in S : \A y \in S \ {x} : StrLess(x, y)
         IN  <<m>> \o SortedKeys(S \ {m})

\* the distinct values of a column in order of first appearance
RECURSIVE FirstSeen(_)
FirstSeen(vals) ==
    IF vals = <<>> THEN <<>>
    ELSE LET r == FirstSeen(SubSeq(vals, 1, Len(vals) - 1))
             v == vals[Len(vals)]
         IN  IF \E i \in 1..Len(r) : r[i] = v THEN r ELSE Append(r, v)

\* sort_values(ascending=False) of entries [key, value]: descending by value,
\* entries of equal value keep their order (the sort is stable on the small
\* tables of this model)
RECURSIVE SortDesc(_)
SortDesc(entries) ==
    IF entries = <<>> THEN <<>>
    ELSE LET i == CHOOSE k \in 1..Len(entries) :
                    /\ \A j \in 1..Len(entries) : entries[j].value <= entries[k].value
                    /\ \A j \in 1..(k - 1) : entries[j].value < entries[k].value
         IN  <<entries[i]>>
                 \o SortDesc(SubSeq(entries, 1, i - 1) \o SubSeq(entries, i + 1, Len(entries)))

\* column.value_counts(): missing values dropped, descending by count
ValueCounts(vals) ==
    LET present == SelectSeq(vals, LAMBDA v : v # <<>>)
        keys == FirstSeen(present)
    IN  SortDesc([i \in 1..Len(keys) |->
                    [key |-> keys[i],
                     value |-> Cardinality({j \in 1..Len(present) : present[j] = keys[i]})]])

Column(df, f) == [i \in 1..Len(df) |-> df[i][f]]

HeadSize == 10

\* groupby('Recipient Name')['Giver Name'].nunique().sort_values(ascending=False)
UniqueGiversPerRecipient(df) ==
    LET keys == SortedKeys(Range(Column(df, "recipient")))
    IN  SortDesc([i \in 1..Len(keys) |->
                    [key |-> keys[i],
                     value |-> Cardinality({df[j].giver : j \in {k \in 1..Len(df) :
                                                df[k].recipient = keys[i]}})]])

RECURSIVE SumAmounts(_, _)
SumAmounts(df, name) ==
    IF df = <<>> THEN 0
    ELSE (IF df[1].recipient = name THEN df[1].amount ELSE 0) + SumAmounts(Tail(df), name)

\* groupby('Recipient Name')['Award Amount'].sum().sort_values(ascending=False)
TopEarners(df) ==
    LET keys == SortedKeys(Range(Column(df, "recipient")))
    IN  SortDesc([i \in 1..Len(keys) |->
                    [key |-> keys[i], value |-> SumAmounts(df, keys[i])]])

\* (recipient, year, month) keys in the order groupby gives them
MonthKeyLess(a, b) ==
    \/ StrLess(a.recipient, b.recipient)
    \/ /\ a.recipient = b.recipient
       /\ \/ a.year < b.year
          \/ a.year = b.year /\ a.month < b.month

RECURSIVE SortedMonthKeys(_)
SortedMonthKeys(S) ==
    IF S = {} THEN <<>>
    ELSE LET m == CHOOSE x \in S : \A y \in S \ {x} : MonthKeyLess(x, y)
         IN  <<m>> \o SortedMonthKeys(S \ {m})

\* the table with one row for every record, ungrouped
RecipientsByMonth_PerRecord(df) ==
    [i \in 1..Len(df) |->
        [recipient |-> df[i].recipient, year |-> df[i].date.year, month |-> df[i].date.month]]

\* groupby(['Recipient Name', 'Year', 'Month']).size().reset_index(): one row
\* for every combination that occurs (records without a recipient are left
\* out by groupby), ascending by recipient, year, month
RecipientsByMonth(df) ==
    SortedMonthKeys({[recipient |-> df[i].recipient, year |-> df[i].date.year,
                      month |-> df[i].date.month] :
                        i \in {k \in 1..Len(df) : df[k].recipient # <<>>}})

Q1Year == 2025

Q1Months == {1, 2, 3}

\* sorted(months) for a list of integers
RECURSIVE SortedInts(_)
SortedInts(months) ==
    IF months = <<>> THEN <<>>
    ELSE LET i == CHOOSE k \in 1..Len(months) : \A j \in 1..Len(months) : months[k] <= months[j]
         IN  <<months[i]>>
                 \o SortedInts(SubSeq(months, 1, i - 1) \o SubSeq(months, i + 1, Len(months)))

\* _find_consecutive_months_recipients: a dict from recipient to list of months
find_consecutive_months_recipients(recipients_by_month) ==
    LET q1_2025 == SelectSeq(recipients_by_month,
                             LAMBDA r : r.year = Q1Year /\ r.month \in Q1Months)
        MonthList(name) ==
            LET rows == SelectSeq(q1_2025, LAMBDA r : r.recipient = name)
            IN  [i \in 1..Len(rows) |-> rows[i].month]
        recipient_months == {q1_2025[i].recipient : i \in 1..Len(q1_2025)}
    IN  [name \in {n \in recipient_months : Len(MonthList(n)) >= 2} |->
            SortedInts(MonthList(name))]

\* the entries of the analysis snapshot that the generators read
analyze_data(df) ==
    [total_records |-> Len(df),
     top_recipients |-> Take(ValueCounts(Column(df, "recipient")), HeadSize),
     top_givers |-> Take(ValueCounts(Column(df, "giver")), HeadSize),
     award_types |-> ValueCounts(Column(df, "award_type")),
     programs |-> ValueCounts(Column(df, "program")),
     top_earners |-> Take(TopEarners(df), HeadSize),
     recipients_with_most_unique_givers |-> Take(UniqueGiversPerRecipient(df), HeadSize),
     recipients_all_q1_months |-> find_consecutive_months_recipients(RecipientsByMonth(df))]

---------------------------------------------------------------------------
(* The deterministic generators                                            *)

Question(q, a, c) ==
    [kind |-> "dict", keys |-> {"question", "answer", "category"},
     question |-> q, answer |-> a, category |-> c]

\* "Who received the highest number of recognitions?"
T_WhoReceivedMost == <<"W","h","o"," ","r","e","c","e","i","v","e","d"," ","t","h","e"," ","h","i","g","h","e","s","t"," ","n","u","m","b","e","r"," ","o","f"," ","r","e","c","o","g","n","i","t","i","o","n","s","?">>

\* "How many recognitions did "
T_HowManyRecDid == <<"H","o","w"," ","m","a","n","y"," ","r","e","c","o","g","n","i","t","i","o","n","s"," ","d","i","d"," ">>

\* " receive?"
T_Receive == <<" ","r","e","c","e","i","v","e","?">>

\* "Who gave the highest number of recognitions?"
T_WhoGaveMost == <<"W","h","o"," ","g","a","v","e"," ","t","h","e"," ","h","i","g","h","e","s","t"," ","n","u","m","b","e","r"," ","o","f"," ","r","e","c","o","g","n","i","t","i","o","n","s","?">>

\* " give?"
T_Give == <<" ","g","i","v","e","?">>

\* "Which recipient has the most unique givers?"
T_WhichRecipientUnique == <<"W","h","i","c","h"," ","r","e","c","i","p","i","e","n","t"," ","h","a","s"," ","t","h","e"," ","m","o","s","t"," ","u","n","i","q","u","e"," ","g","i","v","e","r","s","?">>

\* "How many unique givers did "
T_HowManyUniqueDid == <<"H","o","w"," ","m","a","n","y"," ","u","n","i","q","u","e"," ","g","i","v","e","r","s"," ","d","i","d"," ">>

\* " receive recognitions from?"
T_ReceiveFrom == <<" ","r","e","c","e","i","v","e"," ","r","e","c","o","g","n","i","t","i","o","n","s"," ","f","r","o","m","?">>

\* "Who received the highest total award amount?"
T_WhoHighestAmount == <<"W","h","o"," ","r","e","c","e","i","v","e","d"," ","t","h","e"," ","h","i","g","h","e","s","t"," ","t","o","t","a","l"," ","a","w","a","r","d"," ","a","m","o","u","n","t","?">>

\* "What was the total award amount received by "
T_WhatWasTotal == <<"W","h","a","t"," ","w","a","s"," ","t","h","e"," ","t","o","t","a","l"," ","a","w","a","r","d"," ","a","m","o","u","n","t"," ","r","e","c","e","i","v","e","d"," ","b","y"," ">>

\* "?"
T_QMark == <<"?">>

\* "Which recognition program was used the most?"
T_WhichProgram == <<"W","h","i","c","h"," ","r","e","c","o","g","n","i","t","i","o","n"," ","p","r","o","g","r","a","m"," ","w","a","s"," ","u","s","e","d"," ","t","h","e"," ","m","o","s","t","?">>

\* "How many times was the '"
T_HowManyTimesWasThe == <<"H","o","w"," ","m","a","n","y"," ","t","i","m","e","s"," ","w","a","s"," ","t","h","e"," ","'">>

\* "' program used?"
T_ProgramUsed == <<"'"," ","p","r","o","g","r","a","m"," ","u","s","e","d","?">>

\* "How many recognitions included '"
T_HowManyIncluded == <<"H","o","w"," ","m","a","n","y"," ","r","e","c","o","g","n","i","t","i","o","n","s"," ","i","n","c","l","u","d","e","d"," ","'">>

\* "' as the award type?"
T_AsAwardType == <<"'"," ","a","s"," ","t","h","e"," ","a","w","a","r","d"," ","t","y","p","e","?">>

\* "How many recognitions were given in April 2025?"
T_April2025 == <<"H","o","w"," ","m","a","n","y"," ","r","e","c","o","g","n","i","t","i","o","n","s"," ","w","e","r","e"," ","g","i","v","e","n"," ","i","n"," ","A","p","r","i","l"," ","2","0","2","5","?">>

\* "How many recognitions were given in March 2025?"
T_March2025 == <<"H","o","w"," ","m","a","n","y"," ","r","e","c","o","g","n","i","t","i","o","n","s"," ","w","e","r","e"," ","g","i","v","e","n"," ","i","n"," ","M","a","r","c","h"," ","2","0","2","5","?">>

\* "How many recognitions were given in Q1 2025?"
T_Q12025 == <<"H","o","w"," ","m","a","n","y"," ","r","e","c","o","g","n","i","t","i","o","n","s"," ","w","e","r","e"," ","g","i","v","e","n"," ","i","n"," ","Q","1"," ","2","0","2","5","?">>

\* "How many times did "
T_HowManyTimesDid == <<"H","o","w"," ","m","a","n","y"," ","t","i","m","e","s"," ","d","i","d"," ">>

\* " recognize "
T_Recognize == <<" ","r","e","c","o","g","n","i","z","e"," ">>

\* "Who gave a recognition to "
T_WhoGaveARecognitionTo == <<"W","h","o"," ","g","a","v","e"," ","a"," ","r","e","c","o","g","n","i","t","i","o","n"," ","t","o"," ">>

\* " on "
T_On == <<" ","o","n"," ">>

\* "What award amount did "
T_WhatAwardAmountDid == <<"W","h","a","t"," ","a","w","a","r","d"," ","a","m","o","u","n","t"," ","d","i","d"," ">>

\* " receive from "
T_ReceiveFromGiver == <<" ","r","e","c","e","i","v","e"," ","f","r","o","m"," ">>

\* "Who received a "
T_WhoReceivedA == <<"W","h","o"," ","r","e","c","e","i","v","e","d"," ","a"," ">>

\* " from "
T_From == <<" ","f","r","o","m"," ">>

\* " in "
T_In == <<" ","i","n"," ">>

\* len(self.df[(self.df[<unit>] == value) & (self.df['Year'] == year)])
CountInMonth(df, month, year) ==
    Cardinality({i \in 1..Len(df) : df[i].date.month = month /\ df[i].date.year = year})

CountInQuarter(df, quarter, year) ==
    Cardinality({i \in 1..Len(df) :
                    QuarterOf(df[i].date.month) = quarter /\ df[i].date.year = year})

\* list(...)[1:6]
Slice1To6(entries) == SubSeq(entries, 2, Min(Len(entries), 6))

\* list(analysis['top_recipients'].keys())[0] raises IndexError on an empty table
FactualRaises(analysis) == analysis.top_recipients = <<>>

generate_factual_questions(df, analysis) ==
    LET top_recipient == analysis.top_recipients[1]
        top_giver == analysis.top_givers[1]
        top_unique == analysis.recipients_with_most_unique_givers[1]
        top_earner == analysis.top_earners[1]
        top_program == analysis.programs[1]
        more_recipients == Slice1To6(analysis.top_recipients)
        more_givers == Slice1To6(analysis.top_givers)
    IN  << Question(T_WhoReceivedMost, top_recipient.key, "Recognition Count"),
           Question(T_HowManyRecDid \o top_recipient.key \o T_Receive,
                    IntToStr(top_recipient.value), "Recognition Count"),
           Question(T_WhoGaveMost, top_giver.key, "Recognition Count"),
           Question(T_HowManyRecDid \o top_giver.key \o T_Give,
                    IntToStr(top_giver.value), "Recognition Count"),
           Question(T_WhichRecipientUnique, top_unique.key, "Unique Relationships"),
           Question(T_HowManyUniqueDid \o top_unique.key \o T_ReceiveFrom,
                    IntToStr(top_unique.value), "Unique Relationships"),
           Question(T_WhoHighestAmount, top_earner.key, "Award Amount"),
           Question(T_WhatWasTotal \o top_earner.key \o T_QMark,
                    IntToStr(IntOfAmount(top_earner.value)), "Award Amount"),
           Question(T_WhichProgram, top_program.key, "Program Type"),
           Question(T_HowManyTimesWasThe \o top_program.key \o T_ProgramUsed,
                    IntToStr(top_program.value), "Program Type") >>
        \o [i \in 1..Len(more_recipients) |->
              Question(T_HowManyRecDid \o more_recipients[i].key \o T_Receive,
                       IntToStr(more_recipients[i].value), "Recognition Count")]
        \o [i \in 1..Len(more_givers) |->
              Question(T_HowManyRecDid \o more_givers[i].key \o T_Give,
                       IntToStr(more_givers[i].value), "Recognition Count")]
        \o [i \in 1..Len(analysis.award_types) |->
              Question(T_HowManyIncluded \o analysis.award_types[i].key \o T_AsAwardType,
                       IntToStr(analysis.award_types[i].value), "Award Type")]
        \o << Question(T_April2025, IntToStr(CountInMonth(df, 4, 2025)), "Timeframe"),
              Question(T_March2025, IntToStr(CountInMonth(df, 3, 2025)), "Timeframe"),
              Question(T_Q12025, IntToStr(CountInQuarter(df, 1, 2025)), "Timeframe") >>

\* (giver, recipient) order of the keys of groupby(['Giver Name', 'Recipient Name'])
PairLess(p, q) ==
    StrLess(p.giver, q.giver) \/ (p.giver = q.giver /\ StrLess(p.recipient, q.recipient))

RECURSIVE SortedPairs(_)
SortedPairs(S) ==
    IF S = {} THEN <<>>
    ELSE LET m == CHOOSE x \in S : \A y \in S \ {x} : PairLess(x, y)
         IN  <<m>> \o SortedPairs(S \ {m})

\* groupby(...).size().reset_index(name='count').sort_values('count', ascending=False)
PairCounts(df) ==
    LET keys == SortedPairs({[giver |-> df[i].giver, recipient |-> df[i].recipient] :
                                i \in 1..Len(df)})
    IN  SortDesc([i \in 1..Len(keys) |->
                    [key |-> keys[i],
                     value |-> Cardinality({j \in 1..Len(df) :
                                  df[j].giver = keys[i].giver
                                      /\ df[j].recipient = keys[i].recipient})]])

generate_relationship_questions(df, relationship_limit) ==
    LET pairs == PairCounts(df)
        pair_limit == Min(IntOfTenths(relationship_limit, 3), Len(pairs))
        considered == SelectSeq(Take(pairs, pair_limit), LAMBDA row : row.value > 1)
        date_limit == Min(IntOfTenths(relationship_limit, 7), Len(df))
    IN  [i \in 1..Len(considered) |->
           Question(T_HowManyTimesDid \o considered[i].key.giver \o T_Recognize
                        \o considered[i].key.recipient \o T_QMark,
                    IntToStr(considered[i].value), "Giver-Recipient Relationship")]
        \o [i \in 1..date_limit |->
              Question(T_WhoGaveARecognitionTo \o df[i].recipient \o T_On
                           \o FormatLongDate(df[i].date) \o T_QMark,
                       df[i].giver, "Giver-Recipient Relationship")]

\* the outcomes of self.df.sample(n): n distinct rows in any order
Samples(df, n) ==
    {s \in [1..n -> 1..Len(df)] : \A i, j \in 1..n : i # j => s[i] # s[j]}

\* award_limit = int(self.scenario_limit * 0.4)
AwardLimit(scenario_limit) == IntOfTenths(scenario_limit, 4)

\* giver_limit = int(self.scenario_limit * 0.3)
GiverLimit(scenario_limit) == IntOfTenths(scenario_limit, 3)

\* recipient_limit = int(self.scenario_limit * 0.3)
RecipientLimit(scenario_limit) == IntOfTenths(scenario_limit, 3)

\* the award-amount loop without its test of count
AwardRows_Uncounted(rows, award_limit) == SelectSeq(rows, LAMBDA row : row.amount > 0)

\* the award-amount loop: the first award_limit rows with a positive amount
\* among the first min(award_limit * 2, len(df)) rows
RECURSIVE AwardRows(_, _)
AwardRows(rows, award_limit) ==
    IF rows = <<>> THEN <<>>
    ELSE LET before == AwardRows(SubSeq(rows, 1, Len(rows) - 1), award_limit)
             row == rows[Len(rows)]
         IN  IF row.amount > 0 /\ Len(before) < award_limit
             THEN Append(before, row)
             ELSE before

GiverSampleSize(df, scenario_limit) ==
    IF GiverLimit(scenario_limit) > 0 /\ Len(df) > 0
    THEN Min(GiverLimit(scenario_limit), Len(df))
    ELSE 0

RecipientSampleSize(df, scenario_limit) ==
    IF RecipientLimit(scenario_limit) > 0 /\ Len(df) > 0
    THEN Min(RecipientLimit(scenario_limit), Len(df))
    ELSE 0

\* giver_sample and recipient_sample are the row numbers the two calls of
\* self.df.sample return
generate_specific_scenario_questions(df, scenario_limit, giver_sample, recipient_sample) ==
    LET award_limit == AwardLimit(scenario_limit)
        award_rows == AwardRows(Take(df, Min(award_limit * 2, Len(df))), award_limit)
    IN  [i \in 1..Len(award_rows) |->
           Question(T_WhatAwardAmountDid \o award_rows[i].recipient \o T_ReceiveFromGiver
                        \o award_rows[i].giver \o T_On
                        \o FormatLongDate(award_rows[i].date) \o T_QMark,
                    IntToStr(IntOfAmount(award_rows[i].amount)), "Specific Award")]
        \o [i \in 1..Len(giver_sample) |->
              Question(T_WhoGaveARecognitionTo \o df[giver_sample[i]].recipient \o T_On
                           \o FormatLongDate(df[giver_sample[i]].date) \o T_QMark,
                       df[giver_sample[i]].giver, "Giver-Recipient Relationship")]
        \o [i \in 1..Len(recipient_sample) |->
              Question(T_WhoReceivedA \o df[recipient_sample[i]].program \o T_From
                           \o df[recipient_sample[i]].giver \o T_In
                           \o FormatMonthYear(df[recipient_sample[i]].date) \o T_QMark,
                       df[recipient_sample[i]].recipient, "Recognition Details")]

---------------------------------------------------------------------------
(* save_questions_formatted and the TXT download                           *)

\* the upper-case letter of each lower-case letter
UpperOf ==
    [c \in Range(LowerLetters) |->
        UpperLetters[CHOOSE i \in 1..Len(LowerLetters) : LowerLetters[i] = c]]

\* s.upper()
Upper(s) == [i \in 1..Len(s) |-> IF s[i] \in Range(LowerLetters) THEN UpperOf[s[i]] ELSE s[i]]

\* q.get('category', 'General')
CategoryOf(q) == IF "category" \in q.keys THEN q.category ELSE "General"

\* the characters of the category names that reach the report
CategoryText(category) ==
    CASE category = "General" -> <<"G","e","n","e","r","a","l">>
      [] category = "Award Amount" -> <<"A","w","a","r","d"," ","A","m","o","u","n","t">>
      [] category = "Recognition Count" -> <<"R","e","c","o","g","n","i","t","i","o","n"," ","C","o","u","n","t">>
      [] category = "Comment-Based" -> <<"C","o","m","m","e","n","t","-","B","a","s","e","d">>

\* sorted(by_category.items()): the keys ascending by code points
RECURSIVE SortedCategories(_)
SortedCategories(S) ==
    IF S = {} THEN <<>>
    ELSE LET m == CHOOSE x \in S :
                    \A y \in S \ {x} : StrLess(CategoryText(x), CategoryText(y))
         IN  <<m>> \o SortedCategories(S \ {m})

\* the loop over the categories from the category at position k on, entered
\* with the value question_num has at that moment
RECURSIVE CategoryBlocks(_, _, _, _)
CategoryBlocks(questions, categories, k, question_num) ==
    IF k > Len(categories) THEN <<>>
    ELSE LET qs == SelectSeq(questions, LAMBDA q : CategoryOf(q) = categories[k])
         IN  <<[line |-> "category", heading |-> Upper(CategoryText(categories[k])),
                count |-> Len(qs)]>>
                 \o [i \in 1..Len(qs) |->
                       [line |-> "question", number |-> question_num + (i - 1),
                        question |-> qs[i].question, answer |-> qs[i].answer]]
                 \o CategoryBlocks(questions, categories, k + 1, question_num + Len(qs))

\* the text both places write, as its list of entries: the total, then for
\* each category its heading and its numbered questions
FormattedReport(questions) ==
    <<[line |-> "total", count |-> Len(questions)]>>
        \o CategoryBlocks(questions,
                           SortedCategories({CategoryOf(questions[i]) : i \in 1..Len(questions)}),
                           1, 1)

---------------------------------------------------------------------------
(* is_interesting_question                                                 *)

\* "what is the total number"
S_boring_total == <<"w","h","a","t"," ","i","s"," ","t","h","e"," ","t","o","t","a","l"," ","n","u","m","b","e","r">>

\* "list all"
S_boring_list == <<"l","i","s","t"," ","a","l","l">>

\* "name all"
S_boring_name == <<"n","a","m","e"," ","a","l","l">>

boring_patterns == <<S_boring_total, S_boring_list, S_boring_name>>

InterestMaxLen == 150

\* is_interesting_question with the patterns looked for in the text as written
is_interesting_question_CaseSensitive(question) ==
    LET question_text == question.question
        answer == Lower(question.answer)
    IN  IF \E i \in 1..Len(boring_patterns) : Contains(question_text, boring_patterns[i])
        THEN FALSE
        ELSE IF Len(answer) > InterestMaxLen THEN FALSE
        ELSE TRUE

is_interesting_question(question) ==
    LET question_text == Lower(question.question)
        answer == Lower(question.answer)
    IN  IF \E i \in 1..Len(boring_patterns) : Contains(question_text, boring_patterns[i])
        THEN FALSE
        ELSE IF Len(answer) > InterestMaxLen THEN FALSE
        ELSE TRUE

---------------------------------------------------------------------------
(* The LLM-backed generators                                               *)
(* One call of the service ends in one of: the call raises                 *)
(* ("service_error"), json.loads raises on the text it returned            *)
(* ("bad_json"), or json.loads returns a value ("json").  A parsed value   *)
(* is an array of elements, an object, or a number.  An element is a dict  *)
(* with some of the keys question, answer, category, or a string.          *)

CommentMinLen == 50

\* the rows of comments_df.head(comment_limit): the comment is present and
\* longer than 50 characters
\* CommentUnits with comments of exactly 50 characters taken too
CommentUnits_FromFifty(records, comment_limit) ==
    LET eligible == SelectSeq([i \in 1..Len(records) |-> i],
                              LAMBDA i : records[i].comment_len # -1
                                            /\ records[i].comment_len >= CommentMinLen)
    IN  Take(eligible, comment_limit)

CommentUnits(records, comment_limit) ==
    LET eligible == SelectSeq([i \in 1..Len(records) |-> i],
                              LAMBDA i : records[i].comment_len # -1
                                            /\ records[i].comment_len > CommentMinLen)
    IN  Take(eligible, comment_limit)

\* a string as an element of a question list
StrItem(s) == [kind |-> "str", text |-> s]

\* "question"
K_question == <<"q","u","e","s","t","i","o","n">>

\* "answer"
K_answer == <<"a","n","s","w","e","r">>

\* "category"
K_category == <<"c","a","t","e","g","o","r","y">>

\* the try block raises: the call, json.loads, or extend() of a value that
\* is not iterable
TryRaises(outcome) ==
    \/ outcome.kind # "json"
    \/ outcome.value.kind = "number"

\* "except Exception" catches it
Caught_OnlyParseErrors(outcome) == outcome.kind = "bad_json"

Caught(outcome) == TRUE

\* what questions.extend(generated_questions) appends: the elements of an
\* array, the keys of an object
Extended(value) ==
    IF value.kind = "array" THEN value.items
    ELSE <<StrItem(K_question), StrItem(K_answer), StrItem(K_category)>>

\* what one pass through the try block appends to questions
Contribution(outcome) ==
    IF TryRaises(outcome) THEN <<>> ELSE Extended(outcome.value)

---------------------------------------------------------------------------
(* The stages of generate_all_questions                                    *)

\* q[key] does not raise
HasKey(q, key) == q.kind = "dict" /\ key \in q.keys

\* q['question'] or q['answer'] raises: TypeError on a string, KeyError on a
\* dict without the key
ItemRaises(q) == ~HasKey(q, "question") \/ ~HasKey(q, "answer")

ItemError(q) == IF q.kind # "dict" THEN "TypeError" ELSE "KeyError"

\* the validation loop with every question kept
ValidQuestions_KeepsAll(all) == all

\* the validation loop (no element raises)
ValidQuestions(all) ==
    SelectSeq(all, LAMBDA q : is_valid_answer_format(q.question, q.answer))

\* s[::-1]
Reverse(s) == [i \in 1..Len(s) |-> s[Len(s) + 1 - i]]

\* the interest loop with each kept question put in front of the list
InterestingQuestions_NewestFirst(valid) == Reverse(SelectSeq(valid, is_interesting_question))

\* the interest loop
InterestingQuestions(valid) == SelectSeq(valid, is_interesting_question)

---------------------------------------------------------------------------
(* Inputs of the validator check: a pool of question texts, and answers    *)
(* made of pieces written one after the other                              *)

MaxAnswerAtoms == 2

\* "Who gave the award?"
Q_WhoGave == <<"W","h","o"," ","g","a","v","e"," ","t","h","e"," ","a","w","a","r","d","?">>

\* "WHO gave?"
Q_WhoUpper == <<"W","H","O"," ","g","a","v","e","?">>

\* "Tell me who gave"
Q_TellWhoGave == <<"T","e","l","l"," ","m","e"," ","w","h","o"," ","g","a","v","e">>

\* "Guess who?"
Q_GuessWho == <<"G","u","e","s","s"," ","w","h","o","?">>

\* "Tell me who"
Q_TellMeWho == <<"T","e","l","l"," ","m","e"," ","w","h","o">>

\* "Whom did Ann thank?"
Q_Whom == <<"W","h","o","m"," ","d","i","d"," ","A","n","n"," ","t","h","a","n","k","?">>

\* "How many gave?"
Q_HowMany == <<"H","o","w"," ","m","a","n","y"," ","g","a","v","e","?">>

\* "What amount?"
Q_WhatAmount == <<"W","h","a","t"," ","a","m","o","u","n","t","?">>

\* "How much gave?"
Q_HowMuch == <<"H","o","w"," ","m","u","c","h"," ","g","a","v","e","?">>

\* "So how much?"
Q_SoHowMuch == <<"S","o"," ","h","o","w"," ","m","u","c","h","?">>

\* "How many people who gave?"
Q_HowManyWho == <<"H","o","w"," ","m","a","n","y"," ","p","e","o","p","l","e"," ","w","h","o"," ","g","a","v","e","?">>

\* "What amount to those who gave?"
Q_WhatAmountWho == <<"W","h","a","t"," ","a","m","o","u","n","t"," ","t","o"," ","t","h","o","s","e"," ","w","h","o"," ","g","a","v","e","?">>

\* "Which program?"
Q_Which == <<"W","h","i","c","h"," ","p","r","o","g","r","a","m","?">>

QuestionTexts ==
    {Q_WhoGave, Q_WhoUpper, Q_TellWhoGave, Q_GuessWho, Q_TellMeWho, Q_Whom,
     Q_HowMany, Q_WhatAmount, Q_HowMuch, Q_SoHowMuch, Q_HowManyWho, Q_WhatAmountWho,
     Q_Which}

\* a name of WhoMaxLen - 1 characters
LongName == [i \in 1..(WhoMaxLen - 1) |-> IF i = 1 THEN "A" ELSE "a"]

\* a label of OtherMaxLen characters
LongLabel == [i \in 1..OtherMaxLen |-> "c"]

AnswerAtoms ==
    << <<" ">>,
       <<"1","2",",","5","0","0">>,
       <<"1","2">>,
       <<",">>,
       <<".">>,
       <<"J">>,
       <<"b">>,
       <<"-">>,
       <<"1","e","5">>,
       <<"A"," ","b"," ","c"," ","d"," ","e"," ","f">>,
       <<" ","g">>,
       <<"J","o","h","n"," ","A","."," ","S","m","i","t","h"," ","J","r","."," ","r","e","p","o","r","t","e","d","l","y">>,
       LongName,
       LongLabel >>

\* all sequences over S of length lo..hi
SeqsOf(S, lo, hi) == UNION {[1..n -> S] : n \in lo..hi}

RECURSIVE Concat(_)
Concat(parts) == IF parts = <<>> THEN <<>> ELSE parts[1] \o Concat(Tail(parts))

Answers ==
    {Concat(ps) : ps \in SeqsOf(Range(AnswerAtoms), 0, MaxAnswerAtoms)}

---------------------------------------------------------------------------
(* One call of is_valid_answer_format on arbitrary arguments               *)

ValidatorIdle ==
    /\ v_pc = "idle"
    /\ v_question = <<>>
    /\ v_answer = <<>>
    /\ v_result = FALSE

DedupIdle ==
    /\ d_pc = "idle"
    /\ d_questions = <<>>
    /\ d_i = 0
    /\ unique_questions = <<>>
    /\ seen_questions = {}
    /\ seen_answers = [a \in {} |-> {}]
    /\ d_kept = FALSE

PipelineIdle ==
    /\ p_pc = "idle"
    /\ p_df = <<>>
    /\ p_limits = [comment_limit |-> 0, scenario_limit |-> 0,
                 ai_advanced_limit |-> 0, relationship_limit |-> 0]
    /\ all_questions = <<>>
    /\ c_questions = <<>>
    /\ c_unit = 0
    /\ llm_log = <<>>
    /\ valid_questions = <<>>
    /\ interesting_questions = <<>>
    /\ returned_questions = <<>>
    /\ p_error = ""

FilterIdle ==
    /\ f_pc = "idle"
    /\ f_question = Question(<<>>, <<>>, "")
    /\ f_result = FALSE

CallIdle ==
    /\ call_pc = "idle"
    /\ call_args = <<>>
    /\ call_results = <<>>

\* the variables of every other specification at rest
OthersIdle == FilterIdle /\ CallIdle

InitValidator ==
    /\ v_pc = "call"
    /\ v_question \in QuestionTexts
    /\ v_answer \in Answers
    /\ v_result = FALSE
    /\ DedupIdle
    /\ PipelineIdle
    /\ OthersIdle

CallValidator ==
    /\ v_pc = "call"
    /\ v_result' = is_valid_answer_format(v_question, v_answer)
    /\ v_pc' = "returned"
    /\ UNCHANGED <<v_question, v_answer>>
    /\ UNCHANGED <<dedupVars, pipelineVars, otherVars>>

NextValidator == CallValidator

SpecValidator == InitValidator /\ [][NextValidator]_vars

---------------------------------------------------------------------------
(* One call of deduplicate_questions on an arbitrary list, one loop        *)
(* iteration per step                                                      *)

MaxDedupQuestions == 4

\* "Who gave a prize to "
T_WhoGaveTo == <<"W","h","o"," ","g","a","v","e"," ","a"," ","p","r","i","z","e"," ","t","o"," ">>

A_Ann == <<"A","n","n">>

\* "Who gave a prize to Bo?" -> "Ann"
D_Bo == Question(T_WhoGaveTo \o <<"B","o","?">>, A_Ann, "Giver-Recipient Relationship")

\* "Who gave a prize to Cy?" -> " Ann"
D_Cy == Question(T_WhoGaveTo \o <<"C","y","?">>, <<" ">> \o A_Ann, "Giver-Recipient Relationship")

\* "WHO gave a prize to Di?" -> "Ann"
D_Di == Question(<<"W","H","O">> \o SubSeq(T_WhoGaveTo, 4, Len(T_WhoGaveTo)) \o <<"D","i","?">>,
                 A_Ann, "Giver-Recipient Relationship")

\* "Who gave a prize to Ed?" -> "Ann"
D_Ed == Question(T_WhoGaveTo \o <<"E","d","?">>, A_Ann, "Giver-Recipient Relationship")

\* "Who won?" -> "Ann"
D_Won == Question(<<"W","h","o"," ","w","o","n","?">>, A_Ann, "Recognition Count")

\* "Who" -> "Ann"
D_Who == Question(<<"W","h","o">>, A_Ann, "Recognition Count")

\* "Who gave a prize to Bo? " (a blank at the end) -> "Bo"
D_BoOther == Question(T_WhoGaveTo \o <<"B","o","?"," ">>, <<"B","o">>, "Recognition Details")

DedupPool == {D_Bo, D_Cy, D_Di, D_Ed, D_Won, D_Who, D_BoOther}

InitDedup ==
    /\ d_pc = "loop"
    /\ d_questions \in SeqsOf(DedupPool, 0, MaxDedupQuestions)
    /\ d_i = 0
    /\ unique_questions = DedupStart.unique_questions
    /\ seen_questions = DedupStart.seen_questions
    /\ seen_answers = DedupStart.seen_answers
    /\ d_kept = FALSE
    /\ ValidatorIdle
    /\ PipelineIdle
    /\ OthersIdle

\* the locals of the loop, as one record
DedupLocals ==
    [unique_questions |-> unique_questions,
     seen_questions |-> seen_questions,
     seen_answers |-> seen_answers]

\* one iteration of "for q in questions"
DedupIterate ==
    /\ d_pc = "loop"
    /\ d_i < Len(d_questions)
    /\ LET q == d_questions[d_i + 1]
           st == DedupStep(DedupLocals, q)
       IN  /\ unique_questions' = st.unique_questions
           /\ seen_questions' = st.seen_questions
           /\ seen_answers' = st.seen_answers
           /\ d_kept' = DedupKeeps(DedupLocals, q)
    /\ d_i' = d_i + 1
    /\ UNCHANGED <<d_pc, d_questions>>
    /\ UNCHANGED <<validatorVars, pipelineVars, otherVars>>

\* "return unique_questions"
DedupReturn ==
    /\ d_pc = "loop"
    /\ d_i = Len(d_questions)
    /\ d_pc' = "returned"
    /\ UNCHANGED <<d_questions, d_i, unique_questions, seen_questions, seen_answers, d_kept>>
    /\ UNCHANGED <<validatorVars, pipelineVars, otherVars>>

NextDedup == DedupIterate \/ DedupReturn

SpecDedup == InitDedup /\ [][NextDedup]_vars

---------------------------------------------------------------------------
(* One run of generate_all_questions                                       *)

N_Ann == <<"A","n","n">>

N_Bo == <<"B","o">>

N_Cy == <<"C","y">>

P_Kudos == <<"K","u","d","o","s">>

P_Star == <<"S","t","a","r">>

W_Points == <<"P","o","i","n","t","s">>

W_Cash == <<"C","a","s","h">>

\* Bo -> Ann, 700.5 points on 2025-03-05, with a comment of 51 characters
R_BoAnn == [recipient |-> N_Ann, giver |-> N_Bo, program |-> P_Kudos, award_type |-> W_Points,
            amount |-> 7005, date |-> [year |-> 2025, month |-> 3, day |-> 5],
            comment_len |-> 51]

\* Bo -> Ann again, no award type, no amount, a comment of exactly 50 characters
R_BoAnnAgain == [recipient |-> N_Ann, giver |-> N_Bo, program |-> P_Kudos, award_type |-> <<>>,
                 amount |-> 0, date |-> [year |-> 2025, month |-> 4, day |-> 10],
                 comment_len |-> 50]

\* Ann -> Cy, 50 in cash on 2024-01-20, no comment
R_AnnCy == [recipient |-> N_Cy, giver |-> N_Ann, program |-> P_Star, award_type |-> W_Cash,
            amount |-> 500, date |-> [year |-> 2024, month |-> 1, day |-> 20],
            comment_len |-> -1]

\* Cy -> Bo, 10 points on 2025-01-15, with a comment of 120 characters
R_CyBo == [recipient |-> N_Bo, giver |-> N_Cy, program |-> P_Kudos, award_type |-> W_Points,
           amount |-> 100, date |-> [year |-> 2025, month |-> 1, day |-> 15],
           comment_len |-> 120]

Datasets ==
    {<<>>, <<R_BoAnn>>, <<R_BoAnn, R_BoAnnAgain>>, <<R_AnnCy, R_BoAnn>>, <<R_BoAnn, R_CyBo>>}

\* the limits __init__ sets
DefaultLimits ==
    [comment_limit |-> 30, scenario_limit |-> 40,
     ai_advanced_limit |-> 40, relationship_limit |-> 30]

\* "What did Ann fix?" -> "Login bug", category "Trivia"
L_OddCategory == Question(<<"W","h","a","t"," ","d","i","d"," ","A","n","n"," ","f","i","x","?">>, <<"L","o","g","i","n"," ","b","u","g">>, "Trivia")

\* "Which team shipped it?" and a category, no answer
L_NoAnswer ==
    [kind |-> "dict", keys |-> {"question", "category"},
     question |-> <<"W","h","i","c","h"," ","t","e","a","m"," ","s","h","i","p","p","e","d"," ","i","t","?">>, answer |-> <<>>, category |-> "Comment-Based"]

\* "Who praised Ann?" -> "Bo did. Twice."
L_Sentence == Question(<<"W","h","o"," ","p","r","a","i","s","e","d"," ","A","n","n","?">>, <<"B","o"," ","d","i","d","."," ","T","w","i","c","e",".">>, "Comment-Based")

\* "List all givers of Ann" -> "Bo"
L_Boring == Question(<<"L","i","s","t"," ","a","l","l"," ","g","i","v","e","r","s"," ","o","f"," ","A","n","n">>, N_Bo, "Comment-Based")

\* the arrays a response parses to
LLMArrays ==
    {<<>>, <<L_OddCategory>>, <<L_NoAnswer>>, <<L_Sentence, L_Boring>>,
     <<L_OddCategory, L_Sentence>>}

\* what one LLM call can end in
LLMOutcomes ==
    {[kind |-> "service_error"], [kind |-> "bad_json"],
     [kind |-> "json", value |-> [kind |-> "number"]],
     [kind |-> "json", value |-> [kind |-> "object"]]}
    \cup {[kind |-> "json", value |-> [kind |-> "array", items |-> items]] :
            items \in LLMArrays}

\* set_generation_limits(comment_questions=1) after construction
OneCommentLimits == [DefaultLimits EXCEPT !.comment_limit = 1]

\* the record sets with the limits of each run: the defaults for every record
\* set, and one comment for the record set with two long comments
Configurations ==
    {<<d, DefaultLimits>> : d \in Datasets} \cup {<<(<<R_BoAnn, R_CyBo>>), OneCommentLimits>>}

Init ==
    /\ p_pc = "factual"
    /\ \E c \in Configurations : p_df = c[1] /\ p_limits = c[2]
    /\ all_questions = <<>>
    /\ c_questions = <<>>
    /\ c_unit = 0
    /\ llm_log = <<>>
    /\ valid_questions = <<>>
    /\ interesting_questions = <<>>
    /\ returned_questions = <<>>
    /\ p_error = ""
    /\ ValidatorIdle
    /\ DedupIdle
    /\ OthersIdle

\* analysis = self.analyze_data();
\* all_questions.extend(self.generate_factual_questions(analysis))
Factual ==
    /\ p_pc = "factual" /\ p_error = ""
    /\ LET analysis == analyze_data(p_df)
       IN  IF FactualRaises(analysis)
           THEN /\ p_error' = "IndexError"
                /\ UNCHANGED <<p_pc, all_questions>>
           ELSE /\ all_questions' = all_questions \o generate_factual_questions(p_df, analysis)
                /\ p_pc' = "relationship"
                /\ UNCHANGED p_error
    /\ UNCHANGED <<p_df, p_limits, c_questions, c_unit, llm_log, valid_questions,
                   interesting_questions, returned_questions>>
    /\ UNCHANGED <<validatorVars, dedupVars, otherVars>>

\* all_questions.extend(self.generate_relationship_questions())
Relationship ==
    /\ p_pc = "relationship" /\ p_error = ""
    /\ all_questions' = all_questions
                          \o generate_relationship_questions(p_df, p_limits.relationship_limit)
    /\ p_pc' = "comments"
    /\ UNCHANGED <<p_df, p_limits, c_questions, c_unit, llm_log, valid_questions,
                   interesting_questions, returned_questions, p_error>>
    /\ UNCHANGED <<validatorVars, dedupVars, otherVars>>

\* one iteration of the loop of generate_ai_questions_from_comments, the call
\* to the LLM ending in one of the given outcomes
CommentCallOf(outcomes) ==
    /\ p_pc = "comments" /\ p_error = ""
    /\ c_unit < Len(CommentUnits(p_df, p_limits.comment_limit))
    /\ \E outcome \in outcomes :
          /\ llm_log' = Append(llm_log,
                [generator |-> "comments", unit |-> c_unit + 1,
                 row |-> CommentUnits(p_df, p_limits.comment_limit)[c_unit + 1],
                 outcome |-> outcome])
          /\ IF TryRaises(outcome) /\ ~Caught(outcome)
             THEN /\ p_error' = "LLMError"
                  /\ UNCHANGED c_questions
             ELSE /\ c_questions' = c_questions \o Contribution(outcome)
                  /\ UNCHANGED p_error
    /\ c_unit' = c_unit + 1
    /\ UNCHANGED <<p_pc, p_df, p_limits, all_questions, valid_questions,
                   interesting_questions, returned_questions>>
    /\ UNCHANGED <<validatorVars, dedupVars, otherVars>>

CommentCall == CommentCallOf(LLMOutcomes)

\* "return questions" of generate_ai_questions_from_comments, and the extend
\* of all_questions with it
CommentsReturn ==
    /\ p_pc = "comments" /\ p_error = ""
    /\ c_unit = Len(CommentUnits(p_df, p_limits.comment_limit))
    /\ all_questions' = all_questions \o c_questions
    /\ p_pc' = "advanced"
    /\ UNCHANGED <<p_df, p_limits, c_questions, c_unit, llm_log, valid_questions,
                   interesting_questions, returned_questions, p_error>>
    /\ UNCHANGED <<validatorVars, dedupVars, otherVars>>

\* all_questions.extend(self.generate_advanced_ai_questions(analysis)), the
\* call to the LLM ending in one of the given outcomes
AdvancedCallOf(outcomes) ==
    /\ p_pc = "advanced" /\ p_error = ""
    /\ \E outcome \in outcomes :
          /\ llm_log' = Append(llm_log, [generator |-> "advanced", unit |-> 1, row |-> 0,
                                         outcome |-> outcome])
          /\ IF TryRaises(outcome) /\ ~Caught(outcome)
             THEN /\ p_error' = "LLMError"
                  /\ UNCHANGED <<p_pc, all_questions>>
             ELSE /\ all_questions' = all_questions \o Contribution(outcome)
                  /\ p_pc' = "scenario"
                  /\ UNCHANGED p_error
    /\ UNCHANGED <<p_df, p_limits, c_questions, c_unit, valid_questions,
                   interesting_questions, returned_questions>>
    /\ UNCHANGED <<validatorVars, dedupVars, otherVars>>

AdvancedCall == AdvancedCallOf(LLMOutcomes)

\* all_questions.extend(self.generate_specific_scenario_questions())
Scenario ==
    /\ p_pc = "scenario" /\ p_error = ""
    /\ \E giver_sample \in Samples(p_df, GiverSampleSize(p_df, p_limits.scenario_limit)),
          recipient_sample \in Samples(p_df, RecipientSampleSize(p_df, p_limits.scenario_limit)) :
          all_questions' = all_questions
                             \o generate_specific_scenario_questions(
                                    p_df, p_limits.scenario_limit, giver_sample, recipient_sample)
    /\ p_pc' = "validate"
    /\ UNCHANGED <<p_df, p_limits, c_questions, c_unit, llm_log, valid_questions,
                   interesting_questions, returned_questions, p_error>>
    /\ UNCHANGED <<validatorVars, dedupVars, otherVars>>

\* the validation loop, the interest loop, deduplicate_questions and the
\* return; the first element whose subscript raises ends the run
ValidateFilterDeduplicate ==
    /\ p_pc = "validate" /\ p_error = ""
    /\ IF \E i \in 1..Len(all_questions) : ItemRaises(all_questions[i])
       THEN LET first == CHOOSE i \in 1..Len(all_questions) :
                            /\ ItemRaises(all_questions[i])
                            /\ \A j \in 1..(i - 1) : ~ItemRaises(all_questions[j])
            IN  /\ p_error' = ItemError(all_questions[first])
                /\ UNCHANGED <<p_pc, valid_questions, interesting_questions, returned_questions>>
       ELSE /\ valid_questions' = ValidQuestions(all_questions)
            /\ interesting_questions' = InterestingQuestions(valid_questions')
            /\ returned_questions' = deduplicate_questions(interesting_questions')
            /\ p_pc' = "done"
            /\ UNCHANGED p_error
    /\ UNCHANGED <<p_df, p_limits, all_questions, c_questions, c_unit, llm_log>>
    /\ UNCHANGED <<validatorVars, dedupVars, otherVars>>

Next ==
    \/ Factual
    \/ Relationship
    \/ CommentCall
    \/ CommentsReturn
    \/ AdvancedCall
    \/ Scenario
    \/ ValidateFilterDeduplicate

Spec == Init /\ [][Next]_vars

\* the run has ended: generate_all_questions returned or an exception left it
RunEnded == p_pc = "done" \/ p_error # ""

\* Every LLM call returns or raises (weak fairness of the two actions that
\* make a call), and the run is one thread of sequential code, so a step that
\* can be taken is taken: some step of Next can be taken exactly while the run
\* has not ended, which makes the last conjunct WF_vars(Next) with its
\* ENABLED <<Next>>_vars written out as ~RunEnded.
FairSpec ==
    /\ Spec
    /\ WF_vars(CommentCall)
    /\ WF_vars(AdvancedCall)
    /\ ([]<>RunEnded \/ []<><<Next>>_vars)

---------------------------------------------------------------------------
(* One call of is_interesting_question                                     *)

\* "What is the total number of awards?"
F_TotalNumber == <<"W","h","a","t"," ","i","s"," ","t","h","e"," ","t","o","t","a","l"," ","n","u","m","b","e","r"," ","o","f"," ","a","w","a","r","d","s","?">>

\* "WHAT IS THE TOTAL NUMBER?"
F_TotalUpper == <<"W","H","A","T"," ","I","S"," ","T","H","E"," ","T","O","T","A","L"," ","N","U","M","B","E","R","?">>

\* "Please List all givers"
F_ListAll == <<"P","l","e","a","s","e"," ","L","i","s","t"," ","a","l","l"," ","g","i","v","e","r","s">>

\* "Name All winners"
F_NameAll == <<"N","a","m","e"," ","A","l","l"," ","w","i","n","n","e","r","s">>

\* "name  all"
F_NameTwoBlanks == <<"n","a","m","e"," "," ","a","l","l">>

\* "What is the total  number?"
F_TotalTwoBlanks == <<"W","h","a","t"," ","i","s"," ","t","h","e"," ","t","o","t","a","l"," "," ","n","u","m","b","e","r","?">>

\* "Listall"
F_Listall == <<"L","i","s","t","a","l","l">>

\* "Call all"
F_CallAll == <<"C","a","l","l"," ","a","l","l">>

\* "Who won?"
F_WhoWon == <<"W","h","o"," ","w","o","n","?">>

\* ""
F_Empty == <<>>

FilterTexts ==
    {F_TotalNumber, F_TotalUpper, F_ListAll, F_NameAll, F_NameTwoBlanks, F_TotalTwoBlanks, F_Listall, F_CallAll, F_WhoWon, F_Empty}

\* n copies of the character c
Repeat(c, n) == [i \in 1..n |-> c]

\* answers of 0, 2, 150 and 151 characters; 151 capitals; 149 characters and
\* two blanks; a blank, 150 characters and a blank
FilterAnswers ==
    {<<>>, <<"B","o">>, Repeat("c", 150), Repeat("c", 151), Repeat("C", 151),
     Repeat("c", 149) \o <<" ", " ">>, <<" ">> \o Repeat("c", 150) \o <<" ">>,
     Repeat("c", 148) \o <<" ", " ">>}

InitFilter ==
    /\ f_pc = "call"
    /\ f_question \in {Question(t, a, "Comment-Based") : t \in FilterTexts, a \in FilterAnswers}
    /\ f_result = FALSE
    /\ ValidatorIdle
    /\ DedupIdle
    /\ PipelineIdle
    /\ CallIdle

CallFilter ==
    /\ f_pc = "call"
    /\ f_result' = is_interesting_question(f_question)
    /\ f_pc' = "returned"
    /\ UNCHANGED f_question
    /\ UNCHANGED <<validatorVars, dedupVars, pipelineVars, callVars>>

NextFilter == CallFilter

SpecFilter == InitFilter /\ [][NextFilter]_vars

---------------------------------------------------------------------------
(* Claims about is_interesting_question                                    *)

\* the two characters are the same letter in either case, or the same character
SameIgnoringCase(a, b) == Lower(<<a>>) = Lower(<<b>>)

\* the phrase occurs in the text, case-insensitively
Mentions(text, phrase) ==
    \E k \in 0..(Len(text) - Len(phrase)) :
        \A i \in 1..Len(phrase) : SameIgnoringCase(text[k + i], phrase[i])

\* C17: is_interesting_question rejects a question exactly when its text
\* contains, case-insensitively, "what is the total number", "list all" or
\* "name all", or its answer is longer than 150 characters.
C17_RejectsIffBoringOrLong ==
    f_pc = "returned" =>
        (f_result = FALSE <=>
            \/ Mentions(f_question.question, S_boring_total)
            \/ Mentions(f_question.question, S_boring_list)
            \/ Mentions(f_question.question, S_boring_name)
            \/ Len(f_question.answer) > 150)

\* a question was rejected for a pattern written with capitals
C17_Witness ==
    /\ f_pc = "returned"
    /\ f_result = FALSE
    /\ f_question.question = F_NameAll
    /\ Len(f_question.answer) <= 150

---------------------------------------------------------------------------
(* Claims about is_valid_answer_format                                     *)

IsAlnum(c) == IsAlpha(c) \/ c \in Digits

\* "who" stands in the text as a word of its own: no letter or digit
\* directly before or after it
HasWordWho(text) ==
    LET t == Lower(text)
    IN  \E k \in 1..(Len(t) - 2) :
            /\ SubSeq(t, k, k + 2) = <<"w","h","o">>
            /\ (k = 1 \/ ~IsAlnum(t[k - 1]))
            /\ (k + 2 = Len(t) \/ ~IsAlnum(t[k + 3]))

\* the answer is empty or holds only whitespace
IsBlank(a) == \A i \in 1..Len(a) : a[i] \in Whitespace

\* at least one capital, under 50 characters, no period, at most 6 words
LooksLikeName(a) ==
    /\ \E i \in 1..Len(a) : IsUpper(a[i])
    /\ Len(a) < 50
    /\ \A i \in 1..Len(a) : a[i] # "."
    /\ Len(Split(a)) <= 6

\* the answer without its commas parses as a number, and holds no letter
LooksLikeNumber(a) ==
    /\ ParsesAsFloat(SelectSeq(a, LAMBDA c : c # ","))
    /\ \A i \in 1..Len(a) : ~IsAlpha(a[i])

\* "John A. Smith Jr. reportedly"
A_JohnSmith == <<"J","o","h","n"," ","A","."," ","S","m","i","t","h"," ","J","r","."," ","r","e","p","o","r","t","e","d","l","y">>

\* "12,500"
A_12500 == <<"1","2",",","5","0","0">>

\* C8: a question whose text starts with or contains "who" as a separate
\* word is judged by the name rule: the call returns true exactly when the
\* trimmed answer has a capital, is under 50 characters, has no period and
\* has at most 6 words; "John A. Smith Jr. reportedly" is rejected.
C8_WhoWordJudgedByNameRule ==
    (v_pc = "returned" /\ HasWordWho(v_question))
        => /\ v_result = LooksLikeName(Strip(v_answer))
           /\ (v_answer = A_JohnSmith => v_result = FALSE)

\* C9: for a question that is not who-shaped and is quantity-shaped, the
\* call returns true exactly when the trimmed answer without commas parses
\* as a number and holds no letter; "12,500" is accepted for "How many".
C9_QuantityRuleIff ==
    (v_pc = "returned" /\ ~IsWhoShaped(v_question) /\ IsQuantityText(v_question))
        => /\ v_result = LooksLikeNumber(Strip(v_answer))
           /\ (v_answer = A_12500 => v_result = TRUE)

C9_Witness ==
    /\ v_pc = "returned"
    /\ v_question = Q_HowMany
    /\ v_answer = A_12500
    /\ v_result = TRUE

---------------------------------------------------------------------------
(* Claims about generate_all_questions                                     *)

\* the elements of a list, as a set
Elements(list) == {list[i] : i \in 1..Len(list)}

\* C4: every question in the list generate_all_questions returns satisfies
\* is_valid_answer_format for the shape of its question text and satisfies
\* is_interesting_question, whatever the generators and the LLM produced.
C4_ReturnedPassBothFilters ==
    p_pc = "done" =>
        \A q \in Elements(returned_questions) :
            is_valid_answer_format(q.question, q.answer) /\ is_interesting_question(q)

\* a run has returned after collecting a question the validator rejects and
\* a question only the interest filter rejects
C4_Witness ==
    /\ p_pc = "done"
    /\ returned_questions # <<>>
    /\ \E q \in Elements(all_questions) : ~is_valid_answer_format(q.question, q.answer)
    /\ \E q \in Elements(all_questions) :
          is_valid_answer_format(q.question, q.answer) /\ ~is_interesting_question(q)

\* the category names the generators write and the prompts ask for
KnownCategories ==
    {"Recognition Count", "Unique Relationships", "Award Amount", "Program Type",
     "Award Type", "Timeframe", "Giver-Recipient Relationship", "Specific Award",
     "Recognition Details", "Comment-Based", "Comparative", "Statistical",
     "Award-specific", "Relationship", "Temporal"}

\* C5: every question generate_all_questions returns has a non-empty answer
\* and a category of the known set, questions of the LLM-backed generators
\* included.
C5_AnswerAndKnownCategory ==
    p_pc = "done" =>
        \A q \in Elements(returned_questions) :
            /\ Strip(q.answer) # <<>>
            /\ "category" \in q.keys
            /\ q.category \in KnownCategories

\* the service call or the JSON parsing failed
UnitFailed(outcome) == outcome.kind \in {"service_error", "bad_json"}

\* the response parsed to an array
UnitGaveArray(outcome) == outcome.kind = "json" /\ outcome.value.kind = "array"

CallsOf(generator) == SelectSeq(llm_log, LAMBDA e : e.generator = generator)

\* the questions obtained from the units of a list of calls, in order
RECURSIVE ObtainedFrom(_)
ObtainedFrom(calls) ==
    IF calls = <<>> THEN <<>>
    ELSE (IF UnitGaveArray(calls[1].outcome) THEN calls[1].outcome.value.items ELSE <<>>)
            \o ObtainedFrom(Tail(calls))

IsSuffix(t, s) == Len(t) <= Len(s) /\ SubSeq(s, Len(s) - Len(t) + 1, Len(s)) = t

\* the comments with more than 50 characters, in the order of the table
LongComments == {i \in 1..Len(p_df) : p_df[i].comment_len > 50}

\* C6: in the LLM-backed generators a unit whose service call or JSON
\* parsing fails contributes no questions, the failure is not propagated,
\* the next unit is processed, and the questions obtained from every other
\* unit are returned.
C6_FailedUnitSkippedOthersKept ==
    /\ p_pc \in {"comments", "advanced"} => p_error = ""
    /\ p_pc \in {"advanced", "scenario", "validate", "done"} =>
          Len(CallsOf("comments")) = Min(p_limits.comment_limit, Cardinality(LongComments))
    /\ p_pc \in {"scenario", "validate", "done"} => Len(CallsOf("advanced")) = 1
    /\ (\A i \in 1..Len(llm_log) :
            UnitFailed(llm_log[i].outcome) \/ UnitGaveArray(llm_log[i].outcome)) =>
          /\ c_questions = ObtainedFrom(CallsOf("comments"))
          /\ p_pc = "advanced" => IsSuffix(c_questions, all_questions)
          /\ p_pc = "scenario" =>
                IsSuffix(c_questions \o ObtainedFrom(CallsOf("advanced")), all_questions)

\* the first comment's call failed, the second comment's call gave questions,
\* and the generator returned exactly those
C6_Witness ==
    /\ p_pc = "advanced"
    /\ Len(llm_log) = 2
    /\ UnitFailed(llm_log[1].outcome)
    /\ UnitGaveArray(llm_log[2].outcome)
    /\ llm_log[2].outcome.value.items # <<>>
    /\ c_questions = llm_log[2].outcome.value.items
    /\ IsSuffix(c_questions, all_questions)

\* C7: the validation, filtering and deduplication stages never end the run
\* with an error, whatever JSON value the LLM responses parsed to.
C7_StagesNeverRaise == ~(p_pc = "validate" /\ p_error # "")

---------------------------------------------------------------------------
(* Claims about deduplicate_questions                                      *)

\* the question the loop processed last, and the questions kept before it
LastProcessed == d_questions[d_i]

KeptBefore ==
    IF d_kept
    THEN SubSeq(unique_questions, 1, Len(unique_questions) - 1)
    ELSE unique_questions

SameAnswer(q1, q2) == Strip(q1.answer) = Strip(q2.answer)

SameText(q1, q2) == Strip(q1.question) = Strip(q2.question)

\* the first-5-words signatures are equal or one lies within the other
Colliding(q1, q2) ==
    LET s1 == Signature(q1.question)
        s2 == Signature(q2.question)
    IN  Contains(s1, s2) \/ Contains(s2, s1)

\* C1: the list deduplicate_questions builds never holds two entries with
\* the same question text.
C1_TextsPairwiseDistinct ==
    \A i, j \in 1..Len(unique_questions) :
        i # j => unique_questions[i].question # unique_questions[j].question

\* the call has returned, and a repeated text of its input was dropped
C1_Witness ==
    /\ d_pc = "returned"
    /\ Len(unique_questions) >= 2
    /\ \E i, j \in 1..Len(d_questions) :
          i < j /\ d_questions[i].question = d_questions[j].question

\* C2: a question is dropped exactly when its text was seen before, or its
\* answer already has at least 3 kept questions and its signature collides
\* with the signature of a question kept for that answer.
C2_DroppedIffSeenOrThreeKept ==
    (d_pc = "loop" /\ d_i > 0)
        => (~d_kept <=>
              \/ \E j \in 1..(d_i - 1) : SameText(d_questions[j], LastProcessed)
              \/ /\ Cardinality({k \in 1..Len(KeptBefore) :
                                    SameAnswer(KeptBefore[k], LastProcessed)}) >= 3
                 /\ \E k \in 1..Len(KeptBefore) :
                       /\ SameAnswer(KeptBefore[k], LastProcessed)
                       /\ Colliding(KeptBefore[k], LastProcessed))

\* C3: the returned list holds, for no answer, more than 3 questions whose
\* signatures collide with one another.
C3_AtMostThreeColliding ==
    d_pc = "returned"
        => \A S \in SUBSET (1..Len(unique_questions)) :
              (/\ Cardinality(S) > 3
               /\ \A i, j \in S : SameAnswer(unique_questions[i], unique_questions[j]))
                  => \E i, j \in S : ~Colliding(unique_questions[i], unique_questions[j])

\* t can be obtained from s by deleting elements
RECURSIVE IsSubsequence(_, _)
IsSubsequence(t, s) ==
    IF t = <<>> THEN TRUE
    ELSE IF s = <<>> THEN FALSE
    ELSE IF t[1] = s[1] THEN IsSubsequence(Tail(t), Tail(s))
    ELSE IsSubsequence(t, Tail(s))

\* the list built so far is an order-preserving sub-list of the questions
\* processed so far, and it begins with the first question of the input
KeptInOrderFirstKept ==
    /\ IsSubsequence(unique_questions, SubSeq(d_questions, 1, d_i))
    /\ d_i >= 1 => (unique_questions # <<>> /\ unique_questions[1] = d_questions[1])

\* processing a question never removes or moves a question kept before it
NeverDroppedByLater ==
    Len(unique_questions') >= Len(unique_questions)
        /\ SubSeq(unique_questions', 1, Len(unique_questions)) = unique_questions

---------------------------------------------------------------------------
(* Claims about the order of the stages of generate_all_questions          *)

IsPrefix(t, s) == Len(t) <= Len(s) /\ SubSeq(s, 1, Len(t)) = t

\* the positions of a run, in the order the claim gives
StageOrder ==
    <<"factual", "relationship", "comments", "advanced", "scenario", "validate", "done">>

StageNumber(pc) == CHOOSE i \in 1..Len(StageOrder) : StageOrder[i] = pc

\* what the stages hold while and after the generators run
StagesConsumeWholeOutput ==
    /\ p_pc = "relationship" =>
          all_questions = generate_factual_questions(p_df, analyze_data(p_df))
    /\ (p_pc = "comments" /\ c_unit = 0) =>
          all_questions = generate_factual_questions(p_df, analyze_data(p_df))
                            \o generate_relationship_questions(p_df, p_limits.relationship_limit)
    /\ p_pc # "done" =>
          (valid_questions = <<>> /\ interesting_questions = <<>> /\ returned_questions = <<>>)
    /\ p_pc = "done" =>
          /\ IsSubsequence(valid_questions, all_questions)
          /\ IsSubsequence(interesting_questions, valid_questions)
          /\ IsSubsequence(returned_questions, interesting_questions)
          /\ \A q \in Elements(all_questions) :
                is_valid_answer_format(q.question, q.answer) => q \in Elements(valid_questions)
          /\ \A q \in Elements(valid_questions) :
                is_interesting_question(q) => q \in Elements(interesting_questions)
          /\ \A q \in Elements(interesting_questions) :
                \E u \in Elements(returned_questions) :
                    SameText(u, q) \/ (SameAnswer(u, q) /\ Colliding(u, q))
          /\ Len(all_questions) >= Len(valid_questions)
          /\ Len(valid_questions) >= Len(interesting_questions)
          /\ Len(interesting_questions) >= Len(returned_questions)

\* a step moves to the next position or stays, and only appends to the
\* collected questions
StagesAdvanceInOrder ==
    /\ p_pc' # p_pc => StageNumber(p_pc') = StageNumber(p_pc) + 1
    /\ IsPrefix(all_questions, all_questions')
    /\ Len(llm_log') > Len(llm_log) =>
          (IF llm_log'[Len(llm_log')].generator = "comments"
           THEN p_pc = "comments" ELSE p_pc = "advanced")

\* C19: generate_all_questions runs the generators in the order factual,
\* relationship, comment-based LLM, advanced LLM, scenario; only after all of
\* them applies the validator, the interest filter and the deduplicator, each
\* to the whole output of the stage before; each stage's output is an
\* order-preserving sub-list of its input, so the counts never increase.
C19_StagesInOrder ==
    []StagesConsumeWholeOutput /\ [][StagesAdvanceInOrder]_vars

\* a run has returned in which each of the three stages dropped something
C19_Witness ==
    /\ p_pc = "done"
    /\ Len(all_questions) > Len(valid_questions)
    /\ Len(valid_questions) > Len(interesting_questions)
    /\ Len(interesting_questions) > Len(returned_questions)
    /\ returned_questions # <<>>

---------------------------------------------------------------------------
(* Claims about the LLM calls of one run                                   *)

\* the rows whose comment is present and longer than 50 characters, in the
\* order of the table
RECURSIVE EligibleRows(_)
EligibleRows(n) ==
    IF n = 0 THEN <<>>
    ELSE IF p_df[n].comment_len > 50
    THEN Append(EligibleRows(n - 1), n)
    ELSE EligibleRows(n - 1)

SmallerOf(a, b) == IF a <= b THEN a ELSE b

\* the calls the claim expects: one per eligible comment up to the limit,
\* then one for the summary (row 0)
ExpectedCalls ==
    LET rows == EligibleRows(Len(p_df))
    IN  SubSeq(rows, 1, SmallerOf(p_limits.comment_limit, Len(rows))) \o <<0>>

CallRows == [i \in 1..Len(llm_log) |-> llm_log[i].row]

C20_WitnessLimit ==
    /\ RunEnded
    /\ p_limits.comment_limit = 1
    /\ Len(EligibleRows(Len(p_df))) = 2
    /\ CallRows = <<1, 0>>

---------------------------------------------------------------------------
(* analyze_data called on tables that differ in recipients and dates       *)

MaxMonthRecords == 3

MonthRow(name, y, m) ==
    [R_BoAnn EXCEPT !.recipient = name, !.date = [year |-> y, month |-> m, day |-> 1]]

MonthRows ==
    {MonthRow(n, 2025, m) : n \in {N_Ann, N_Bo}, m \in {1, 2, 3, 4}}
        \cup {MonthRow(n, 2024, 2) : n \in {N_Ann, N_Bo}}

InitMonths ==
    /\ call_pc = "analyze_data"
    /\ call_args \in SeqsOf(MonthRows, 0, MaxMonthRecords)
    /\ call_results = <<>>
    /\ ValidatorIdle
    /\ DedupIdle
    /\ PipelineIdle
    /\ FilterIdle

CallAnalyze ==
    /\ call_pc = "analyze_data"
    /\ call_results' = <<analyze_data(call_args).recipients_all_q1_months>>
    /\ call_pc' = "returned"
    /\ UNCHANGED call_args
    /\ UNCHANGED <<validatorVars, dedupVars, pipelineVars, filterVars>>

NextMonths == CallAnalyze

SpecMonths == InitMonths /\ [][NextMonths]_vars

---------------------------------------------------------------------------
(* Claims about _find_consecutive_months_recipients                        *)

\* the months of January to March 2025 in which the table has a record of name
Q1MonthsOf(df, name) ==
    {m \in {1, 2, 3} : \E i \in 1..Len(df) :
        df[i].recipient = name /\ df[i].date.year = 2025 /\ df[i].date.month = m}

\* list is ascending without repetition and holds exactly the elements of S
IsSortedListOf(list, S) ==
    /\ Range(list) = S
    /\ \A i \in 1..(Len(list) - 1) : list[i] < list[i + 1]

C16_WitnessOneMonth ==
    /\ call_pc = "returned"
    /\ call_args = <<MonthRow(N_Bo, 2025, 1), MonthRow(N_Bo, 2025, 1), MonthRow(N_Bo, 2025, 1)>>
    /\ call_results[1] = <<>>

---------------------------------------------------------------------------
(* generate_specific_scenario_questions called with different limits       *)

\* two records with an amount, one without, one more with an amount
ScenarioTable == <<R_BoAnn, R_CyBo, R_BoAnnAgain, R_AnnCy>>

ScenarioLimits == {0, 1, 2, 3, 4, 5, 7, 9, 10, 40}

InitScenario ==
    /\ call_pc = "generate_specific_scenario_questions"
    /\ call_args \in {[df |-> Take(ScenarioTable, n), scenario_limit |-> limit] :
                         n \in 0..Len(ScenarioTable), limit \in ScenarioLimits}
    /\ call_results = <<>>
    /\ ValidatorIdle
    /\ DedupIdle
    /\ PipelineIdle
    /\ FilterIdle

\* the call returns; the three limits are its locals at that moment
CallScenario ==
    /\ call_pc = "generate_specific_scenario_questions"
    /\ \E giver_sample \in Samples(call_args.df,
                                    GiverSampleSize(call_args.df, call_args.scenario_limit)),
          recipient_sample \in Samples(call_args.df,
                                    RecipientSampleSize(call_args.df, call_args.scenario_limit)) :
          call_results' =
              <<[award_limit |-> AwardLimit(call_args.scenario_limit),
                 giver_limit |-> GiverLimit(call_args.scenario_limit),
                 recipient_limit |-> RecipientLimit(call_args.scenario_limit),
                 questions |-> generate_specific_scenario_questions(
                                   call_args.df, call_args.scenario_limit,
                                   giver_sample, recipient_sample)]>>
    /\ call_pc' = "returned"
    /\ UNCHANGED call_args
    /\ UNCHANGED <<validatorVars, dedupVars, pipelineVars, filterVars>>

NextScenario == CallScenario

SpecScenario == InitScenario /\ [][NextScenario]_vars

---------------------------------------------------------------------------
(* Claims about generate_specific_scenario_questions                       *)

\* the number of questions of a list that carry the category
CountCategory(questions, category) ==
    Cardinality({i \in 1..Len(questions) : questions[i].category = category})

\* C15: a scenario limit L >= 0 is split into floor(0.4 L) award-amount,
\* floor(0.3 L) giver-lookup and floor(0.3 L) recipient-lookup questions; the
\* generator emits at most that many of each sub-shape and at most L in all.
C15_SplitAndAtMost ==
    call_pc = "returned" =>
        LET L == call_args.scenario_limit
            out == call_results[1]
        IN  /\ out.award_limit = (4 * L) \div 10
            /\ out.giver_limit = (3 * L) \div 10
            /\ out.recipient_limit = (3 * L) \div 10
            /\ CountCategory(out.questions, "Specific Award") <= out.award_limit
            /\ CountCategory(out.questions, "Giver-Recipient Relationship") <= out.giver_limit
            /\ CountCategory(out.questions, "Recognition Details") <= out.recipient_limit
            /\ Len(out.questions) <= L

\* limit 3 on two records that both have an amount: one award-amount question
\* (the target), no lookup question
C15_Witness ==
    /\ call_pc = "returned"
    /\ call_args.scenario_limit = 3
    /\ Len(call_args.df) = 2
    /\ CountCategory(call_results[1].questions, "Specific Award") = 1
    /\ Len(call_results[1].questions) = 1

\* limit 40: targets 16, 12 and 12
C15_WitnessForty ==
    /\ call_pc = "returned"
    /\ call_args.scenario_limit = 40
    /\ call_results[1].award_limit = 16
    /\ call_results[1].giver_limit = 12
    /\ call_results[1].recipient_limit = 12
    /\ Len(call_results[1].questions) = 11

---------------------------------------------------------------------------
(* The two generators without random sampling, each called twice on one    *)
(* object                                                                  *)

TwiceRelationshipLimits == {0, 3, 10, 30, 90}

RunsPerGenerator == 2

InitTwice ==
    /\ call_pc = "generators"
    /\ call_args \in {[df |-> d, relationship_limit |-> limit] :
                         d \in Datasets, limit \in TwiceRelationshipLimits}
    /\ call_results = [factual |-> <<>>, relationship |-> <<>>]
    /\ ValidatorIdle
    /\ DedupIdle
    /\ PipelineIdle
    /\ FilterIdle

\* analysis = self.analyze_data(); self.generate_factual_questions(analysis)
RunFactual ==
    /\ call_pc = "generators"
    /\ Len(call_results.factual) < RunsPerGenerator
    /\ LET analysis == analyze_data(call_args.df)
           returned == IF FactualRaises(analysis)
                       THEN "IndexError"
                       ELSE generate_factual_questions(call_args.df, analysis)
       IN  call_results' = [call_results EXCEPT !.factual = Append(@, returned)]
    /\ UNCHANGED <<call_pc, call_args>>
    /\ UNCHANGED <<validatorVars, dedupVars, pipelineVars, filterVars>>

\* a generate_relationship_questions whose loops run over self.df.sample(len(self.df))
RunRelationship_Sampled ==
    /\ call_pc = "generators"
    /\ Len(call_results.relationship) < RunsPerGenerator
    /\ \E s \in Samples(call_args.df, Len(call_args.df)) :
          call_results' =
              [call_results EXCEPT !.relationship =
                  Append(@, generate_relationship_questions(
                                [i \in 1..Len(call_args.df) |-> call_args.df[s[i]]],
                                call_args.relationship_limit))]
    /\ UNCHANGED <<call_pc, call_args>>
    /\ UNCHANGED <<validatorVars, dedupVars, pipelineVars, filterVars>>

\* self.generate_relationship_questions()
RunRelationship ==
    /\ call_pc = "generators"
    /\ Len(call_results.relationship) < RunsPerGenerator
    /\ call_results' =
          [call_results EXCEPT !.relationship =
              Append(@, generate_relationship_questions(call_args.df,
                                                        call_args.relationship_limit))]
    /\ UNCHANGED <<call_pc, call_args>>
    /\ UNCHANGED <<validatorVars, dedupVars, pipelineVars, filterVars>>

NextTwice ==
    \/ RunFactual
    \/ RunRelationship

SpecTwice == InitTwice /\ [][NextTwice]_vars

---------------------------------------------------------------------------
(* Claims about repeated runs of the generators                            *)

---------------------------------------------------------------------------
(* The three generators that use no LLM, called on tables whose names      *)
(* differ in shape                                                         *)

\* "J. Doe"
N_JDoe == <<"J","."," ","D","o","e">>

\* J. Doe -> Ann: the first record of the model with another giver
R_DoeAnn == [R_BoAnn EXCEPT !.giver = N_JDoe]

GeneratorTables == Datasets \cup {<<R_DoeAnn>>, <<R_DoeAnn, R_CyBo>>, <<R_CyBo, R_DoeAnn>>}

InitGenerators ==
    /\ call_pc = "deterministic"
    /\ call_args \in {[df |-> d, limits |-> DefaultLimits] : d \in GeneratorTables}
    /\ call_results = [factual |-> <<>>, relationship |-> <<>>, scenario |-> <<>>]
    /\ ValidatorIdle
    /\ DedupIdle
    /\ PipelineIdle
    /\ FilterIdle

\* self.generate_factual_questions(analysis), once
GenFactual ==
    /\ call_pc = "deterministic"
    /\ call_results.factual = <<>>
    /\ LET analysis == analyze_data(call_args.df)
       IN  /\ ~FactualRaises(analysis)
           /\ call_results' = [call_results EXCEPT !.factual =
                                  <<generate_factual_questions(call_args.df, analysis)>>]
    /\ UNCHANGED <<call_pc, call_args>>
    /\ UNCHANGED <<validatorVars, dedupVars, pipelineVars, filterVars>>

\* self.generate_relationship_questions(), once
GenRelationship ==
    /\ call_pc = "deterministic"
    /\ call_results.relationship = <<>>
    /\ call_results' = [call_results EXCEPT !.relationship =
                           <<generate_relationship_questions(
                                 call_args.df, call_args.limits.relationship_limit)>>]
    /\ UNCHANGED <<call_pc, call_args>>
    /\ UNCHANGED <<validatorVars, dedupVars, pipelineVars, filterVars>>

\* self.generate_specific_scenario_questions(), once
GenScenario ==
    /\ call_pc = "deterministic"
    /\ call_results.scenario = <<>>
    /\ \E giver_sample \in Samples(call_args.df,
                    GiverSampleSize(call_args.df, call_args.limits.scenario_limit)),
          recipient_sample \in Samples(call_args.df,
                    RecipientSampleSize(call_args.df, call_args.limits.scenario_limit)) :
          call_results' = [call_results EXCEPT !.scenario =
                             <<generate_specific_scenario_questions(
                                   call_args.df, call_args.limits.scenario_limit,
                                   giver_sample, recipient_sample)>>]
    /\ UNCHANGED <<call_pc, call_args>>
    /\ UNCHANGED <<validatorVars, dedupVars, pipelineVars, filterVars>>

NextGenerators ==
    \/ GenFactual
    \/ GenRelationship
    \/ GenScenario

SpecGenerators == InitGenerators /\ [][NextGenerators]_vars

---------------------------------------------------------------------------
(* Claims about the questions the generators build                         *)

\* every question of every list in lists passes is_valid_answer_format
AllPassValidator(lists) ==
    \A k \in 1..Len(lists) : \A i \in 1..Len(lists[k]) :
        is_valid_answer_format(lists[k][i].question, lists[k][i].answer)

\* C11: every question built by generate_factual_questions,
\* generate_relationship_questions and generate_specific_scenario_questions
\* passes the answer-format validator, for every prepared record set.
C11_GeneratedQuestionsPassValidator ==
    call_pc = "deterministic" =>
        /\ AllPassValidator(call_results.factual)
        /\ AllPassValidator(call_results.relationship)
        /\ AllPassValidator(call_results.scenario)

---------------------------------------------------------------------------
(* The report written for lists of questions                               *)

MaxReportQuestions == 3

\* questions of three categories, two of them of the same one, and a
\* question of an LLM without a category
ReportPool ==
    {Question(Q_WhoGave, A_Ann, "Recognition Count"),
     Question(Q_HowMany, <<"2">>, "Recognition Count"),
     Question(Q_WhatAmount, A_12500, "Award Amount"),
     Question(Q_Which, N_Bo, "Comment-Based"),
     [kind |-> "dict", keys |-> {"question", "answer"},
      question |-> Q_GuessWho, answer |-> N_Cy, category |-> ""]}

InitReport ==
    /\ call_pc = "report"
    /\ call_args \in SeqsOf(ReportPool, 0, MaxReportQuestions)
    /\ call_results = <<>>
    /\ ValidatorIdle
    /\ DedupIdle
    /\ PipelineIdle
    /\ FilterIdle

\* generator.save_questions_formatted(questions)
SaveFormatted ==
    /\ call_pc = "report"
    /\ call_results' = <<FormattedReport(call_args)>>
    /\ call_pc' = "saved"
    /\ UNCHANGED call_args
    /\ UNCHANGED <<validatorVars, dedupVars, pipelineVars, filterVars>>

\* the UI builds txt_content for the download button
TxtDownload ==
    /\ call_pc = "report"
    /\ call_results' = <<FormattedReport(call_args)>>
    /\ call_pc' = "downloaded"
    /\ UNCHANGED call_args
    /\ UNCHANGED <<validatorVars, dedupVars, pipelineVars, filterVars>>

NextReport ==
    \/ SaveFormatted
    \/ TxtDownload

SpecReport == InitReport /\ [][NextReport]_vars

---------------------------------------------------------------------------
(* Claims about the report                                                 *)

ReportWritten == call_pc \in {"saved", "downloaded"}

\* the positions of the report that hold a question
QuestionLines(report) == {i \in 1..Len(report) : report[i].line = "question"}

\* every question of the list is in the report as often as in the list
ListsEachQuestionOnce(questions, report) ==
    /\ Cardinality(QuestionLines(report)) = Len(questions)
    /\ \A i \in 1..Len(questions) :
          Cardinality({j \in QuestionLines(report) :
                          /\ report[j].question = questions[i].question
                          /\ report[j].answer = questions[i].answer})
            = Cardinality({j \in 1..Len(questions) :
                              /\ questions[j].question = questions[i].question
                              /\ questions[j].answer = questions[i].answer})

\* the category headings are in ascending order, none twice
CategoriesAscending(report) ==
    \A i, j \in 1..Len(report) :
        (report[i].line = "category" /\ report[j].line = "category" /\ i < j)
            => StrLess(report[i].heading, report[j].heading)

\* the first question under a heading has number 1, each further question of
\* the category the number of the one before plus 1
NumberedPerCategory(report) ==
    \A i \in QuestionLines(report) :
        report[i].number = IF report[i - 1].line = "category"
                           THEN 1
                           ELSE report[i - 1].number + 1

\* the first question of the report has number 1, each further question the
\* number of the question before it plus 1, whatever its category
NumberedThroughout(report) ==
    \A i \in QuestionLines(report) :
        report[i].number = Cardinality({j \in QuestionLines(report) : j <= i})

\* C13: the report lists every question exactly once, grouped by category
\* with the categories in alphabetical order, and the numbering of each
\* category's questions starts at 1 and increases by 1 within the category.
C13_ReportNumbersPerCategory ==
    ReportWritten =>
        /\ ListsEachQuestionOnce(call_args, call_results[1])
        /\ CategoriesAscending(call_results[1])
        /\ NumberedPerCategory(call_results[1])

---------------------------------------------------------------------------
(* __init__ and prepare_data                                               *)

\* the value of a digit character
DigitValue(c) == CHOOSE n \in 0..9 : DigitChars[n + 1] = c

\* int(s) for a run of digits
RECURSIVE DigitsToInt(_)
DigitsToInt(s) ==
    IF s = <<>> THEN 0
    ELSE 10 * DigitsToInt(SubSeq(s, 1, Len(s) - 1)) + DigitValue(s[Len(s)])

AllDigits(s) == s # <<>> /\ \A i \in 1..Len(s) : s[i] \in Digits

\* the positions of sep in s
PositionsOf(s, sep) == {i \in 1..Len(s) : s[i] = sep}

DaysInMonth(year, month) ==
    IF month = 2
    THEN (IF year % 4 = 0 /\ (year % 100 # 0 \/ year % 400 = 0) THEN 29 ELSE 28)
    ELSE IF month \in {4, 6, 9, 11} THEN 30 ELSE 31

\* the three fields of a text of the form m/d/y, <<>> when the text has not
\* exactly two slashes
DateFields(text) ==
    IF Cardinality(PositionsOf(text, "/")) # 2 THEN <<>>
    ELSE LET a == CHOOSE i \in PositionsOf(text, "/") : \A j \in PositionsOf(text, "/") : i <= j
             b == CHOOSE i \in PositionsOf(text, "/") : \A j \in PositionsOf(text, "/") : j <= i
         IN  <<SubSeq(text, 1, a - 1), SubSeq(text, a + 1, b - 1), SubSeq(text, b + 1, Len(text))>>

\* pd.to_datetime(text, format='%m/%d/%Y') returns a date: %m and %d are one
\* or two digits of a month and of a day of that month, %Y is four digits
\* of a year that a Timestamp can hold
MatchesDateFormat(text) ==
    LET f == DateFields(text)
    IN  /\ f # <<>>
        /\ AllDigits(f[1]) /\ Len(f[1]) <= 2 /\ DigitsToInt(f[1]) \in 1..12
        /\ AllDigits(f[2]) /\ Len(f[2]) <= 2
        /\ AllDigits(f[3]) /\ Len(f[3]) = 4 /\ DigitsToInt(f[3]) \in 1678..2261
        /\ DigitsToInt(f[2]) \in 1..DaysInMonth(DigitsToInt(f[3]), DigitsToInt(f[1]))

ParseDate(text) ==
    LET f == DateFields(text)
    IN  [year |-> DigitsToInt(f[3]), month |-> DigitsToInt(f[1]), day |-> DigitsToInt(f[2])]

\* the text is digits, or digits, a point and digits
IsPlainDecimal(text) ==
    \/ AllDigits(text)
    \/ \E k \in 2..(Len(text) - 1) :
          /\ text[k] = "."
          /\ AllDigits(SubSeq(text, 1, k - 1))
          /\ AllDigits(SubSeq(text, k + 1, Len(text)))

\* pd.to_numeric(text, errors='coerce') followed by fillna(0), in tenths: the
\* value of a plain decimal (the model keeps one decimal place), 0 for a text
\* that is no number or for an empty cell
CoercedAmount(text) ==
    IF ~IsPlainDecimal(text) THEN 0
    ELSE IF AllDigits(text) THEN 10 * DigitsToInt(text)
    ELSE LET k == CHOOSE i \in 1..Len(text) : text[i] = "."
         IN  10 * DigitsToInt(SubSeq(text, 1, k - 1)) + DigitValue(text[k + 1])

\* the columns the generators read
RequiredColumns == {"recipient", "giver", "program", "award_type", "amount", "date", "comment"}

\* the exception prepare_data raises on a file, "" for none: line 47 reads the
\* date column and parses every date, line 54 reads the amount column
PrepareError(file) ==
    IF "date" \notin file.columns THEN "KeyError"
    ELSE IF \E i \in 1..Len(file.rows) : ~MatchesDateFormat(file.rows[i].date_text)
    THEN "ValueError"
    ELSE IF "amount" \notin file.columns THEN "KeyError"
    ELSE ""

\* self.df after prepare_data; a column the file lacks is left at the value of
\* an empty cell and is never read by the model
prepare_data(file) ==
    [i \in 1..Len(file.rows) |->
        [recipient |-> file.rows[i].recipient, giver |-> file.rows[i].giver,
         program |-> file.rows[i].program, award_type |-> file.rows[i].award_type,
         amount |-> CoercedAmount(file.rows[i].amount_text),
         date |-> ParseDate(file.rows[i].date_text),
         comment_len |-> IF "comment" \in file.columns THEN file.rows[i].comment_len ELSE -1]]

\* the columns analyze_data subscripts besides those prepare_data has read
AnalysisColumns == {"recipient", "giver", "program", "award_type"}

---------------------------------------------------------------------------
(* Construction of a generator on a file, then generate_all_questions      *)

\* Bo -> Ann, "700.5" on "03/05/2025", a comment of 51 characters
RawGood ==
    [recipient |-> N_Ann, giver |-> N_Bo, program |-> P_Kudos, award_type |-> W_Points,
     amount_text |-> <<"7","0","0",".","5">>,
     date_text |-> <<"0","3","/","0","5","/","2","0","2","5">>, comment_len |-> 51]

\* Cy -> Bo, amount "abc" on "1/15/2025", no comment
RawLoose ==
    [recipient |-> N_Bo, giver |-> N_Cy, program |-> P_Kudos, award_type |-> W_Points,
     amount_text |-> <<"a","b","c">>,
     date_text |-> <<"1","/","1","5","/","2","0","2","5">>, comment_len |-> -1]

\* the first record dated "2025-03-05"
RawIsoDate == [RawGood EXCEPT !.date_text = <<"2","0","2","5","-","0","3","-","0","5">>]

\* the first record dated "02/30/2025"
RawNoSuchDay == [RawGood EXCEPT !.date_text = <<"0","2","/","3","0","/","2","0","2","5">>]

RawTables == {<<RawGood>>, <<RawGood, RawLoose>>, <<RawIsoDate>>, <<RawGood, RawNoSuchDay>>}

\* files with every column and files that lack one column
RawFiles ==
    {[columns |-> cols, rows |-> t] :
        cols \in {RequiredColumns} \cup {RequiredColumns \ {c} : c \in RequiredColumns},
        t \in RawTables}

InitConstruct ==
    /\ call_pc = "construct"
    /\ call_args \in RawFiles
    /\ call_results = <<>>
    /\ ValidatorIdle
    /\ DedupIdle
    /\ PipelineIdle
    /\ FilterIdle

\* QuizQuestionGenerator(csv_path): read_csv, the default limits, prepare_data
Construct ==
    /\ call_pc = "construct"
    /\ IF PrepareError(call_args) # ""
       THEN /\ call_pc' = "raised"
            /\ call_results' = <<PrepareError(call_args)>>
            /\ UNCHANGED <<p_df, p_limits>>
       ELSE /\ call_pc' = "constructed"
            /\ p_df' = prepare_data(call_args)
            /\ p_limits' = DefaultLimits
            /\ UNCHANGED call_results
    /\ UNCHANGED call_args
    /\ UNCHANGED <<p_pc, all_questions, c_questions, c_unit, llm_log, valid_questions,
                   interesting_questions, returned_questions, p_error>>
    /\ UNCHANGED <<validatorVars, dedupVars, filterVars>>

\* generate_all_questions is called: analyze_data subscripts the name, program
\* and award type columns
StartRun ==
    /\ call_pc = "constructed"
    /\ call_pc' = "running"
    /\ IF AnalysisColumns \subseteq call_args.columns
       THEN p_pc' = "factual" /\ UNCHANGED p_error
       ELSE p_error' = "KeyError" /\ UNCHANGED p_pc
    /\ UNCHANGED <<call_args, call_results>>
    /\ UNCHANGED <<p_df, p_limits, all_questions, c_questions, c_unit, llm_log,
                   valid_questions, interesting_questions, returned_questions>>
    /\ UNCHANGED <<validatorVars, dedupVars, filterVars>>

\* the first statement of generate_ai_questions_from_comments on a table
\* without the comment column
CommentsColumnMissing ==
    /\ call_pc = "running"
    /\ p_pc = "comments" /\ p_error = ""
    /\ "comment" \notin call_args.columns
    /\ p_error' = "KeyError"
    /\ UNCHANGED <<call_pc, call_args, call_results>>
    /\ UNCHANGED <<p_pc, p_df, p_limits, all_questions, c_questions, c_unit, llm_log,
                   valid_questions, interesting_questions, returned_questions>>
    /\ UNCHANGED <<validatorVars, dedupVars, filterVars>>

NextConstruct ==
    \/ Construct
    \/ StartRun
    \/ Factual
    \/ Relationship
    \/ CommentsColumnMissing
    \/ ("comment" \in call_args.columns /\ CommentCall)
    \/ ("comment" \in call_args.columns /\ CommentsReturn)
    \/ AdvancedCall
    \/ Scenario
    \/ ValidateFilterDeduplicate

SpecConstruct == InitConstruct /\ [][NextConstruct]_vars

---------------------------------------------------------------------------
(* Claims about input errors                                               *)

\* the file lacks a required column or holds a date that is not MM/DD/YYYY
BadInput(file) ==
    \/ file.columns # RequiredColumns
    \/ \E i \in 1..Len(file.rows) : ~MatchesDateFormat(file.rows[i].date_text)

\* no generator has run, no LLM call was made and no question exists
NothingGenerated ==
    /\ p_pc = "idle"
    /\ all_questions = <<>>
    /\ c_questions = <<>>
    /\ llm_log = <<>>
    /\ returned_questions = <<>>

\* C12: a missing required column or a date that does not match MM/DD/YYYY
\* is reported by prepare_data during construction, before any generator or
\* LLM call and with no question produced; an award amount that cannot be
\* parsed is no error and becomes 0.
C12_InputErrorsRaisedAtConstruction ==
    /\ (call_pc # "construct" /\ BadInput(call_args))
          => (call_pc = "raised" /\ NothingGenerated)
    /\ (call_pc # "construct" /\ ~BadInput(call_args))
          => /\ call_pc # "raised"
             /\ \A i \in 1..Len(p_df) :
                   ~ParsesAsFloat(call_args.rows[i].amount_text) => p_df[i].amount = 0

\* what the code does on these files: only a missing date or amount column
\* and a date of another format end the construction
OnlyDateAndAmountEndConstruction ==
    /\ call_pc # "construct" =>
          (call_pc = "raised" <=>
              \/ {"date", "amount"} \cap call_args.columns # {"date", "amount"}
              \/ \E i \in 1..Len(call_args.rows) :
                    ~MatchesDateFormat(call_args.rows[i].date_text))
    /\ call_pc = "raised" => NothingGenerated

---------------------------------------------------------------------------
(* generate_relationship_questions under a range of relationship limits,   *)
(* on the small tables and on one table longer than 0.7 * 90               *)

MaxRelationshipLimit == 12

LongTableLen == 64

\* Bo -> Ann and Cy -> Bo in turn
LongTable == [i \in 1..LongTableLen |-> IF i % 2 = 1 THEN R_BoAnn ELSE R_CyBo]

RelationshipLimits == (0..MaxRelationshipLimit) \cup {30, 90}

InitRelationship ==
    /\ call_pc = "relationship"
    /\ call_args \in {[df |-> d, relationship_limit |-> limit] :
                         d \in Datasets \cup {LongTable}, limit \in RelationshipLimits}
    /\ call_results = <<>>
    /\ ValidatorIdle
    /\ DedupIdle
    /\ PipelineIdle
    /\ FilterIdle

\* questions = self.generate_relationship_questions()
CallRelationship ==
    /\ call_pc = "relationship"
    /\ call_results' = <<generate_relationship_questions(call_args.df,
                                                         call_args.relationship_limit)>>
    /\ call_pc' = "returned"
    /\ UNCHANGED call_args
    /\ UNCHANGED <<validatorVars, dedupVars, pipelineVars, filterVars>>

NextRelationship == CallRelationship

SpecRelationship == InitRelationship /\ [][NextRelationship]_vars

---------------------------------------------------------------------------
(* Claims about the split of the relationship limit                        *)

\* the number of records of df from giver to recipient
PairCount(df, giver, recipient) ==
    Cardinality({j \in 1..Len(df) : df[j].giver = giver /\ df[j].recipient = recipient})

\* the (giver, recipient) pairs of df that occur more often than the given pair
MoreFrequentPairs(df, giver, recipient) ==
    {p \in {<<df[j].giver, df[j].recipient>> : j \in 1..Len(df)} :
        PairCount(df, p[1], p[2]) > PairCount(df, giver, recipient)}

\* the list is pair-frequency questions followed by date_count "who gave"
\* questions: the pair questions number at most pair_bound and each is about
\* a pair that occurs more than once and has fewer than pair_bound pairs
\* above it in frequency; the "who gave" questions are about the first
\* date_count records, in order
SplitIs(df, questions, pair_bound, date_count) ==
    LET pair_count == Len(questions) - date_count
    IN  /\ pair_count >= 0
        /\ pair_count <= pair_bound
        /\ \A i \in 1..pair_count :
              \E j \in 1..Len(df) :
                 /\ questions[i].question =
                        T_HowManyTimesDid \o df[j].giver \o T_Recognize
                            \o df[j].recipient \o T_QMark
                 /\ questions[i].answer =
                        IntToStr(PairCount(df, df[j].giver, df[j].recipient))
                 /\ PairCount(df, df[j].giver, df[j].recipient) > 1
                 /\ Cardinality(MoreFrequentPairs(df, df[j].giver, df[j].recipient))
                        < pair_bound
        /\ date_count <= Len(df)
        /\ \A i \in 1..date_count :
              /\ questions[pair_count + i].question =
                     T_WhoGaveARecognitionTo \o df[i].recipient \o T_On
                         \o FormatLongDate(df[i].date) \o T_QMark
              /\ questions[pair_count + i].answer = df[i].giver

\* C21: for every relationship limit L >= 0, generate_relationship_questions
\* considers at most floor(0.3 * L) of the most frequent pairs, emits a
\* pair-frequency question only for considered pairs that occur more than
\* once, emits exactly min(floor(0.7 * L), number of records) "who gave"
\* questions taken from the first records in order, and never emits more
\* than L questions.
C21_SplitsByFloors ==
    call_pc = "returned" /\ call_args.relationship_limit >= 0 =>
        /\ SplitIs(call_args.df, call_results[1],
                   (3 * call_args.relationship_limit) \div 10,
                   Min((7 * call_args.relationship_limit) \div 10, Len(call_args.df)))
        /\ Len(call_results[1]) <= call_args.relationship_limit

\* the same with the two shares as the interpreter computes them:
\* int(L * 0.3) and int(L * 0.7)
SplitsByTruncatedProducts ==
    call_pc = "returned" /\ call_args.relationship_limit >= 0 =>
        /\ SplitIs(call_args.df, call_results[1],
                   IntOfTenths(call_args.relationship_limit, 3),
                   Min(IntOfTenths(call_args.relationship_limit, 7), Len(call_args.df)))
        /\ Len(call_results[1]) <= call_args.relationship_limit

\* outside limit 90 on more than 62 records the floors are what is emitted
SplitsByFloorsBelowNinety ==
    call_pc = "returned" /\ call_args.relationship_limit >= 0
        /\ ~(call_args.relationship_limit = 90 /\ Len(call_args.df) > 62) =>
        SplitIs(call_args.df, call_results[1],
                (3 * call_args.relationship_limit) \div 10,
                Min((7 * call_args.relationship_limit) \div 10, Len(call_args.df)))

\* limit 90 on the long table: 2 pair questions and 62 "who gave" questions
NinetyGivesSixtyTwo ==
    /\ call_pc = "returned"
    /\ call_args.relationship_limit = 90
    /\ call_args.df = LongTable
    /\ Len(call_results[1]) = 64
    /\ StartsWith(call_results[1][3].question, T_WhoGaveARecognitionTo)
    /\ StartsWith(call_results[1][2].question, T_HowManyTimesDid)

---------------------------------------------------------------------------
(* generate_all_questions with an LLM that repeats the text of questions   *)
(* the factual and the relationship generator build                        *)

\* Bo -> Ann, Cy -> Bo, Ann -> Cy: everyone gives once and receives once
RingTable == <<R_BoAnn, R_CyBo, R_AnnCy>>

\* set_generation_limits(comment_questions=1, scenario_questions=3)
CopyLimits == [DefaultLimits EXCEPT !.comment_limit = 1, !.scenario_limit = 3]

\* "How many recognitions did Ann give?" -> "2"
LC_GiveTwo == Question(T_HowManyRecDid \o N_Ann \o T_Give, <<"2">>, "Comment-Based")

\* "How many recognitions did Ann receive?" -> "3"
LC_ReceiveThree == Question(T_HowManyRecDid \o N_Ann \o T_Receive, <<"3">>, "Comment-Based")

\* "Who gave a recognition to Ann on March 05, 2025?" -> "Cy"
LC_WhoGaveCy ==
    Question(T_WhoGaveARecognitionTo \o N_Ann \o T_On
                 \o FormatLongDate([year |-> 2025, month |-> 3, day |-> 5]) \o T_QMark,
             N_Cy, "Comment-Based")

\* the arrays a response parses to
CopyArrays ==
    {<<>>, <<LC_GiveTwo>>, <<LC_ReceiveThree>>, <<LC_WhoGaveCy>>,
     <<LC_ReceiveThree, LC_GiveTwo>>, <<L_Sentence, LC_WhoGaveCy>>}

CopyOutcomes ==
    {[kind |-> "service_error"]}
    \cup {[kind |-> "json", value |-> [kind |-> "array", items |-> items]] :
            items \in CopyArrays}

InitCopies ==
    /\ p_pc = "factual"
    /\ p_df \in {RingTable, <<R_BoAnn, R_CyBo>>, <<R_BoAnn>>}
    /\ p_limits = CopyLimits
    /\ all_questions = <<>>
    /\ c_questions = <<>>
    /\ c_unit = 0
    /\ llm_log = <<>>
    /\ valid_questions = <<>>
    /\ interesting_questions = <<>>
    /\ returned_questions = <<>>
    /\ p_error = ""
    /\ ValidatorIdle
    /\ DedupIdle
    /\ OthersIdle

NextCopies ==
    \/ Factual
    \/ Relationship
    \/ CommentCallOf(CopyOutcomes)
    \/ CommentsReturn
    \/ AdvancedCallOf(CopyOutcomes)
    \/ Scenario
    \/ ValidateFilterDeduplicate

SpecCopies == InitCopies /\ [][NextCopies]_vars

---------------------------------------------------------------------------
(* Claims about a question text built by a generator and repeated by the   *)
(* LLM                                                                     *)

\* the questions of the factual and of the relationship generator: the head
\* of all_questions
DeterministicQuestions ==
    generate_factual_questions(p_df, analyze_data(p_df))
        \o generate_relationship_questions(p_df, p_limits.relationship_limit)

\* the questions the LLM-backed generators added, in the order of the calls
RECURSIVE ContributionsOf(_)
ContributionsOf(log) ==
    IF log = <<>> THEN <<>>
    ELSE Contribution(log[1].outcome) \o ContributionsOf(Tail(log))

\* q passes the validation loop and the interest loop
PassesBoth(q) ==
    is_valid_answer_format(q.question, q.answer) /\ is_interesting_question(q)

\* C22: when an LLM-backed generator returns a question whose text equals
\* that of a question built by the factual or relationship generator, and
\* both pass validation and filtering, the returned list holds the built
\* question with its data-derived answer and not the copy of the LLM,
\* whatever answer the LLM gave.
C22_BuiltQuestionKeptCopyDropped ==
    p_pc = "done" =>
        LET built == DeterministicQuestions
            copies == ContributionsOf(llm_log)
        IN  \A i \in 1..Len(built), j \in 1..Len(copies) :
               (/\ built[i].question = copies[j].question
                /\ PassesBoth(built[i])
                /\ PassesBoth(copies[j]))
               => /\ \E k \in 1..Len(returned_questions) :
                        returned_questions[k] = built[i]
                  /\ \A k \in 1..Len(returned_questions) :
                        returned_questions[k].question = built[i].question
                            => returned_questions[k].answer = built[i].answer

\* what the order of the raw list gives: a copy of the LLM is never returned
\* next to the built question of the same text, and when the built question
\* is returned the text carries its answer
CopyNeverBesideBuiltQuestion ==
    p_pc = "done" =>
        LET built == DeterministicQuestions
            copies == ContributionsOf(llm_log)
        IN  \A i \in 1..Len(built), j \in 1..Len(copies) :
               (/\ built[i].question = copies[j].question
                /\ PassesBoth(built[i])
                /\ PassesBoth(copies[j])
                /\ \E k \in 1..Len(returned_questions) : returned_questions[k] = built[i])
               => \A k \in 1..Len(returned_questions) :
                     returned_questions[k].question = built[i].question
                         => returned_questions[k].answer = built[i].answer

\* the run on the ring of three records in which the LLM repeated "How many
\* recognitions did Ann give?" with the answer 2: the returned list holds the
\* copy of the LLM and no question with the answer 1 for that text
CopyReturnedInPlaceOfBuilt ==
    /\ p_pc = "done"
    /\ p_df = RingTable
    /\ \E k \in 1..Len(returned_questions) : returned_questions[k] = LC_GiveTwo
    /\ \E i \in 1..Len(interesting_questions) :
          /\ interesting_questions[i].question = LC_GiveTwo.question
          /\ interesting_questions[i].answer = <<"1">>
    /\ \A k \in 1..Len(returned_questions) :
          returned_questions[k].question = LC_GiveTwo.question
              => returned_questions[k] = LC_GiveTwo

\* the run in which the LLM repeated "How many recognitions did Ann
\* receive?" with the answer 3: only the built question is returned
CopyDroppedForBuilt ==
    /\ p_pc = "done"
    /\ p_df = RingTable
    /\ \E j \in 1..Len(interesting_questions) : interesting_questions[j] = LC_ReceiveThree
    /\ \A k \in 1..Len(returned_questions) : returned_questions[k] # LC_ReceiveThree
    /\ \E k \in 1..Len(returned_questions) :
          /\ returned_questions[k].question = LC_ReceiveThree.question
          /\ returned_questions[k].answer = <<"1">>

---------------------------------------------------------------------------
(* deduplicate_questions applied to a list and then to its own output      *)

InitDedupTwice ==
    /\ call_pc = "first"
    /\ call_args \in SeqsOf(DedupPool, 0, MaxDedupQuestions)
    /\ call_results = <<>>
    /\ ValidatorIdle
    /\ DedupIdle
    /\ PipelineIdle
    /\ FilterIdle

\* once = self.deduplicate_questions(questions)
DedupFirst ==
    /\ call_pc = "first"
    /\ call_results' = <<deduplicate_questions(call_args)>>
    /\ call_pc' = "second"
    /\ UNCHANGED call_args
    /\ UNCHANGED <<validatorVars, dedupVars, pipelineVars, filterVars>>

\* twice = self.deduplicate_questions(once)
DedupSecond ==
    /\ call_pc = "second"
    /\ call_results' = Append(call_results, deduplicate_questions(call_results[1]))
    /\ call_pc' = "returned"
    /\ UNCHANGED call_args
    /\ UNCHANGED <<validatorVars, dedupVars, pipelineVars, filterVars>>

NextDedupTwice == DedupFirst \/ DedupSecond

SpecDedupTwice == InitDedupTwice /\ [][NextDedupTwice]_vars

---------------------------------------------------------------------------
(* Claims about repeated deduplication                                     *)

\* C23: deduplicate_questions is idempotent: applied to its own output it
\* returns that output unchanged, the same questions in the same order.
C23_SecondPassChangesNothing ==
    call_pc = "returned" => call_results[2] = call_results[1]

\* the first pass dropped the fourth question of a crowded answer, and the
\* second pass returned the three kept questions again
C23_Witness ==
    /\ call_pc = "returned"
    /\ call_args = <<D_Bo, D_Won, D_Who, D_Ed>>
    /\ call_results[1] = <<D_Bo, D_Won, D_Who>>
    /\ call_results[2] = <<D_Bo, D_Won, D_Who>>

---------------------------------------------------------------------------
(* Claims about questions that are both who-shaped and quantity-shaped     *)

\* the text holds " who " and also "how many" or "what amount"
IsMixedText(question_text) ==
    /\ Contains(Lower(question_text), S_sp_who_sp)
    /\ \/ Contains(Lower(question_text), S_how_many)
       \/ Contains(Lower(question_text), S_what_amount)

\* digits and commas only, a digit first: 12 or 12,500
IsPlainNumber(answer) ==
    /\ answer # <<>>
    /\ answer[1] \in Digits
    /\ \A i \in 1..Len(answer) : answer[i] \in Digits \cup {","}

\* one to six words of letters, a capital first, shorter than 50 characters
IsNameLike(answer) ==
    /\ answer # <<>>
    /\ IsUpper(answer[1])
    /\ \A i \in 1..Len(answer) : IsAlpha(answer[i]) \/ answer[i] = " "
    /\ Len(answer) < WhoMaxLen
    /\ Len(Split(answer)) <= WhoMaxWords

\* C24: the who-shape test of is_valid_answer_format comes before the
\* quantity-shape test: a question that holds " who " and also "how many" or
\* "what amount" is judged by the who rule alone, so a plain number such as
\* "12,500" is rejected for it and a name-like answer is accepted.
C24_MixedQuestionJudgedByWhoRule ==
    v_pc = "returned" /\ IsMixedText(v_question) =>
        /\ v_result = (Strip(v_answer) # <<>> /\ WhoRule(Strip(v_answer)))
        /\ IsPlainNumber(v_answer) => ~v_result
        /\ (Strip(v_answer) # <<>> /\ QuantityRule(Strip(v_answer))) => ~v_result
        /\ IsNameLike(v_answer) => v_result

\* "How many people who gave?" with the answer "12,500" was rejected
C24_Witness ==
    /\ v_pc = "returned"
    /\ v_question = Q_HowManyWho
    /\ v_answer = <<"1","2",",","5","0","0">>
    /\ v_result = FALSE

\* "What amount to those who gave?" with the answer "Jb" was accepted
MixedQuestionTakesName ==
    /\ v_pc = "returned"
    /\ v_question = Q_WhatAmountWho
    /\ v_answer = <<"J","b">>
    /\ v_result = TRUE

---------------------------------------------------------------------------
(* validate_questions, the standalone checker (validate_questions.py)      *)

CheckerNameMax == 50

CheckerOtherMax == 100

\* the branch of the if / elif / else that takes the question
CheckerShape(question) ==
    LET question_text == Lower(question)
    IN  IF StartsWith(question_text, S_who_sp) \/ Contains(question_text, S_sp_who_sp)
        THEN "who"
        ELSE IF Contains(question_text, S_how_many) \/ Contains(question_text, S_what_amount)
        THEN "how_many"
        ELSE "other"

\* the reason appended to problematic for the question, "" when none is
CheckerIssue(question, answer) ==
    CASE CheckerShape(question) = "who" ->
            IF ~HasUpper(answer) \/ Len(answer) > CheckerNameMax \/ Count(answer, ".") > 0
            THEN "Invalid name format"
            ELSE ""
      [] CheckerShape(question) = "how_many" ->
            IF ParsesAsFloat(RemoveChar(answer, ","))
            THEN IF HasAlpha(answer) THEN "Number should not contain letters" ELSE ""
            ELSE "Not a valid number"
      [] OTHER ->
            IF Len(answer) > CheckerOtherMax THEN "Answer too long" ELSE ""

\* the counts and lists validate_questions builds from the loaded questions
validate_questions(questions) ==
    [duplicates |-> Len(questions)
                      - Cardinality({questions[i].question : i \in 1..Len(questions)}),
     shapes |-> [i \in 1..Len(questions) |-> CheckerShape(questions[i].question)],
     problematic |-> {i \in 1..Len(questions) :
                         CheckerIssue(questions[i].question, questions[i].answer) # ""}]

\* the branch of is_valid_answer_format that takes the question
ValidatorShape(question_text) ==
    IF IsWhoShaped(question_text) THEN "who"
    ELSE IF IsQuantityText(question_text) THEN "how_many"
    ELSE "other"

---------------------------------------------------------------------------
(* The end of generate_all_questions on a raw list, and validate_questions *)
(* on the list it returns                                                  *)

MaxCheckerQuestions == 2

\* "Jb" followed by 49 blanks
PaddedName == [i \in 1..(CheckerNameMax + 1) |->
                  IF i = 1 THEN "J" ELSE IF i = 2 THEN "b" ELSE " "]

CheckerPool ==
    {Question(Q_WhoGave, <<"J","b">>, "Comment-Based"),
     Question(Q_WhoGave \o <<" ">>, <<"J">>, "Comment-Based"),
     Question(Q_WhoGave, <<"1","2">>, "Comment-Based"),
     Question(Q_TellWhoGave, PaddedName, "Comment-Based"),
     Question(Q_HowMany, <<"1","2",",","5","0","0">>, "Recognition Count"),
     Question(Q_HowMany, <<" ","1","2">>, "Recognition Count"),
     Question(Q_HowMany, <<"J","b">>, "Comment-Based"),
     Question(Q_HowManyWho, <<"J","b">>, "Comment-Based"),
     Question(Q_HowMuch, <<"1","2">>, "Comment-Based"),
     Question(Q_Which, <<"J","b">>, "Program"),
     L_Boring}

InitChecker ==
    /\ call_pc = "validate"
    /\ call_args \in SeqsOf(CheckerPool, 0, MaxCheckerQuestions)
    /\ call_results = <<>>
    /\ ValidatorIdle
    /\ DedupIdle
    /\ PipelineIdle
    /\ FilterIdle

\* the validation loop, the interest loop and deduplicate_questions of
\* generate_all_questions, and its return
ReturnQuestions ==
    /\ call_pc = "validate"
    /\ call_results' =
          <<deduplicate_questions(InterestingQuestions(ValidQuestions(call_args)))>>
    /\ call_pc' = "returned"
    /\ UNCHANGED call_args
    /\ UNCHANGED <<validatorVars, dedupVars, pipelineVars, filterVars>>

\* validate_questions on the file holding the returned list
CheckQuestions ==
    /\ call_pc = "returned"
    /\ call_results' = Append(call_results, validate_questions(call_results[1]))
    /\ call_pc' = "checked"
    /\ UNCHANGED call_args
    /\ UNCHANGED <<validatorVars, dedupVars, pipelineVars, filterVars>>

NextChecker == ReturnQuestions \/ CheckQuestions

SpecChecker == InitChecker /\ [][NextChecker]_vars

---------------------------------------------------------------------------
(* Claims about the checker and the validator                              *)

\* C25: the standalone checker agrees with the validator on everything the
\* pipeline returns: every question is_valid_answer_format accepts is put in
\* the same shape (who / quantity / other) by validate_questions and is not
\* reported as problematic, and the checker counts 0 duplicate questions.
C25_CheckerAgreesWithValidator ==
    call_pc = "checked" =>
        /\ \A i \in 1..Len(call_results[1]) :
              is_valid_answer_format(call_results[1][i].question, call_results[1][i].answer)
                 => /\ call_results[2].shapes[i] = ValidatorShape(call_results[1][i].question)
                    /\ i \notin call_results[2].problematic
        /\ call_results[2].duplicates = 0

\* the checker counts no duplicate in a returned list
CheckerCountsNoDuplicates ==
    call_pc = "checked" => call_results[2].duplicates = 0

\* the two agree on the shape of every returned question that does not begin
\* with "how much", and the checker reports a returned question only for the
\* length of an answer that is longer before trimming than after
CheckerAgreesOtherwise ==
    call_pc = "checked" =>
        \A i \in 1..Len(call_results[1]) :
           LET q == call_results[1][i]
           IN  /\ ~StartsWith(Lower(q.question), S_how_much)
                     => call_results[2].shapes[i] = ValidatorShape(q.question)
               /\ q.answer = Strip(q.answer) => i \notin call_results[2].problematic

\* "How much gave?" -> "12" was returned; the validator took it as a quantity
\* question and the checker lists it among the other questions
HowMuchCountedAsOther ==
    /\ call_pc = "checked"
    /\ call_results[1] = <<Question(Q_HowMuch, <<"1","2">>, "Comment-Based")>>
    /\ ValidatorShape(Q_HowMuch) = "how_many"
    /\ call_results[2].shapes = <<"other">>
    /\ call_results[2].problematic = {}

\* "Tell me who gave" -> "Jb" and 49 blanks was returned and the checker
\* reports it
PaddedNameReported ==
    /\ call_pc = "checked"
    /\ call_results[1] = <<Question(Q_TellWhoGave, PaddedName, "Comment-Based")>>
    /\ call_results[2].problematic = {1}

\* two texts that differ by a trailing blank: one is returned
TrailingBlankDropped ==
    /\ call_pc = "checked"
    /\ Len(call_args) = 2
    /\ call_args[1].question = Q_WhoGave
    /\ call_args[2].question = Q_WhoGave \o <<" ">>
    /\ Len(call_results[1]) = 1
    /\ call_results[2].duplicates = 0

====
